---- MODULE Spec2Model ----
(***************************************************************************)
(* State-machine model of the nonzu oracle deployments:                    *)
(*   - time-oracle:    PreciseTimer and TimeOracleTrigger                   *)
(*   - binance-oracle: TradeBuffer, the drain loop of main, TwapCalculator  *)
(*                     and BinanceTwapTrigger                               *)
(* The two oracles are separate binaries; `binary` says which one a        *)
(* behaviour is a run of, and each has one OrchestratorErrorControl gate.  *)
(* Time is a discrete clock `now` that stands for Instant::now() and       *)
(* Utc::now(); every handler reads it at the moment it runs.  Option<T> is *)
(* a sequence of length <= 1.  f64 prices and quantities are small         *)
(* naturals and a quotient is kept as the pair <<numerator, denominator>>. *)
(* u64 arithmetic is not reduced modulo 2^64: all values stay far below    *)
(* the width within the bounds of the model.                               *)
(***************************************************************************)
EXTENDS Integers, Sequences, FiniteSets, TLC

\* ---------------------------------------------------------------- bounds

\* Last instant of the clock.
MaxTime == 7
\* PreciseTimer interval_ms / TimeOracleTrigger update_interval_ms.
Interval == 2
\* TradeBuffer max_buffer_size.
MaxBufferSize == 2
\* TwapCalculator window_size.
WindowSize == 2
\* BinanceTwapTrigger update_interval.
UpdateInterval == 2
\* Number of trade messages the feed delivers in a behaviour.
MaxTrades == 3
\* Last instant of the clock in a run of the binance oracle.
MaxFeedTime == 3
\* Number of connection attempts of the feed ingester in a behaviour.
MaxSessions == 2
\* BinanceWebSocketClient reconnect_delay.
ReconnectDelay == 1

\* ---------------------------------------------------------------- helpers

None == <<>>
Some(x) == <<x>>
IsSome(o) == Len(o) = 1
Unwrap(o) == o[1]

Symbols == {"BTCUSDT", "ETHUSDT"}

\* ------------------------------------------------------------------ state

VARIABLES
  binary,         \* which oracle binary this behaviour is a run of
  now,            \* the monotonic / wall clock
  paused,         \* OrchestratorErrorControl: is_worker_pool_paused
  request,        \* value returned by the last should_trigger evaluation
  gate_hist,      \* history of the pause gate
  \* time-oracle
  timer,          \* PreciseTimer {interval_ms, next_tick, tick_count}
  stats,          \* OracleStats counters
  ticks,          \* history: every (target_time, actual_time) should_tick returned
  \* binance-oracle
  trade_buffer,   \* TradeBuffer: symbol -> Vec<Trade> (btc_trades, eth_trades)
  calculator,     \* symbol -> TwapCalculator {window_size, trades, last_twap}
  drain,          \* the drain loop of main: its position and its local Vec
  twap_trigger,   \* BinanceTwapTrigger {last_update, last_btc_price}
  next_id,        \* history: sequence number of the next trade message
  feed_hist,      \* history of what happened to each trade
  calc_hist,      \* history: the last call on the BTC calculator
  conn,           \* BinanceWebSocketClient::run: position, attempt number, wake-up time
  writers,        \* threads inside TwapCalculator methods: position and locals
  reader,         \* what a consumer last read from the BTC calculator
  ws_handle,      \* main: the JoinHandle of the background task, running or aborted
  sync,           \* the RwLocks: who holds which, and where each task is in its call
  evaluators      \* tasks inside BinanceTwapTrigger::should_trigger, and what they emitted

gateVars == <<paused, request, gate_hist>>
timeVars == <<timer, stats, ticks>>
feedVars == <<trade_buffer, calculator, drain, next_id, feed_hist, calc_hist>>
ioVars == <<conn, writers, reader>>
taskVars == <<ws_handle, sync, evaluators>>
vars == <<binary, now, paused, request, gate_hist, timer, stats, ticks,
          trade_buffer, calculator, drain, twap_trigger, next_id, feed_hist,
          calc_hist, conn, writers, reader, ws_handle, sync, evaluators>>

\* ------------------------------------------------------------ PreciseTimer

PreciseTimer_new(interval) ==
  [interval_ms |-> interval, next_tick |-> interval, tick_count |-> 0]

\* The branch should_tick takes when polled at elapsed_ms.
TickBranch(t, elapsed_ms) ==
  IF elapsed_ms < t.next_tick THEN "none"
  ELSE IF elapsed_ms > t.next_tick + t.interval_ms THEN "catchup"
  ELSE "normal"

\* should_tick without its catch-up branch: every fire advances by one.
should_tick_NoCatchUp(t, elapsed_ms) ==
  IF elapsed_ms >= t.next_tick
  THEN [timer |-> [t EXCEPT !.tick_count = t.tick_count + 1,
                            !.next_tick = (t.tick_count + 1) * t.interval_ms],
        ret   |-> Some(<<t.next_tick, elapsed_ms>>)]
  ELSE [timer |-> t, ret |-> None]

\* should_tick reporting the target of the tick after the one it fires.
should_tick_TargetAfter(t, elapsed_ms) ==
  IF elapsed_ms >= t.next_tick
  THEN [timer |-> [t EXCEPT !.tick_count = t.tick_count + 1,
                            !.next_tick = (t.tick_count + 1) * t.interval_ms],
        ret   |-> Some(<<(t.tick_count + 1) * t.interval_ms, elapsed_ms>>)]
  ELSE [timer |-> t, ret |-> None]

\* should_tick re-basing the schedule on the instant of the poll.
should_tick_FromElapsed(t, elapsed_ms) ==
  IF elapsed_ms >= t.next_tick
  THEN [timer |-> [t EXCEPT !.tick_count = t.tick_count + 1,
                            !.next_tick = elapsed_ms + t.interval_ms],
        ret   |-> Some(<<t.next_tick, elapsed_ms>>)]
  ELSE [timer |-> t, ret |-> None]

should_tick(t, elapsed_ms) ==
  IF elapsed_ms >= t.next_tick
  THEN LET target_time == t.next_tick
           actual_time == elapsed_ms
           missed_intervals == (elapsed_ms - t.next_tick) \div t.interval_ms
           count == IF elapsed_ms > t.next_tick + t.interval_ms
                    THEN t.tick_count + missed_intervals + 1
                    ELSE t.tick_count + 1
       IN [timer |-> [t EXCEPT !.tick_count = count,
                               !.next_tick = count * t.interval_ms],
           ret   |-> Some(<<target_time, actual_time>>)]
  ELSE [timer |-> t, ret |-> None]

\* ---------------------------------------------------------------- pause gate

\* OrchestratorErrorControl::pause().
Pause ==
  /\ ~paused
  /\ paused' = TRUE
  /\ gate_hist' = [gate_hist EXCEPT !.pause_start = now, !.suppressed = FALSE]
  /\ UNCHANGED <<taskVars, ioVars, binary, now, request, timeVars, feedVars, twap_trigger>>

\* resume() leaving the flag set.
Resume_StaysPaused ==
  /\ paused
  /\ paused' = TRUE
  /\ gate_hist' = [gate_hist EXCEPT !.resumed_at = now,
                                    !.pause_start = 0,
                                    !.pause_len = now - gate_hist.pause_start,
                                    !.fired_since_resume = FALSE]
  /\ UNCHANGED <<taskVars, ioVars, binary, now, request, timeVars, feedVars, twap_trigger>>

\* OrchestratorErrorControl::resume().
Resume ==
  /\ paused
  /\ paused' = FALSE
  /\ gate_hist' = [gate_hist EXCEPT !.resumed_at = now,
                                    !.pause_start = 0,
                                    !.pause_len = now - gate_hist.pause_start,
                                    !.fired_since_resume = FALSE]
  /\ UNCHANGED <<taskVars, ioVars, binary, now, request, timeVars, feedVars, twap_trigger>>

\* ------------------------------------------------------- TimeOracleTrigger

\* #[derive(Default)] of OracleStats.
OracleStats_default ==
  [total_triggers |-> 0, successful_updates |-> 0, failed_updates |-> 0,
   min_gas_used |-> None, max_gas_used |-> None]

TimeOracle_should_trigger ==
  /\ binary = "time-oracle"
  /\ IF paused
     THEN /\ request' = None
          /\ gate_hist' = [gate_hist EXCEPT !.suppressed = TRUE]
          /\ UNCHANGED timeVars
     ELSE LET r == should_tick(timer, now)
          IN /\ timer' = r.timer
             /\ IF IsSome(r.ret)
                THEN /\ stats' = [stats EXCEPT !.total_triggers = @ + 1]
                     /\ request' = Some([type |-> "update_timestamp"])
                     /\ ticks' = Append(ticks, Unwrap(r.ret))
                     /\ gate_hist' = [gate_hist EXCEPT !.fired_since_resume = TRUE]
                ELSE /\ request' = None
                     /\ UNCHANGED <<stats, ticks, gate_hist>>
  /\ UNCHANGED <<taskVars, ioVars, binary, now, paused, feedVars, twap_trigger>>

\* gas_used of the receipts handed to on_complete.
GasUsed == {1, 2}
Receipts == {None} \cup {Some([gas_used |-> g]) : g \in GasUsed}

Min(a, b) == IF a <= b THEN a ELSE b
Max(a, b) == IF a >= b THEN a ELSE b

\* on_complete counting a success as a failure too.
on_complete_CountsBoth(s, success, receipt) ==
  IF success
  THEN [s EXCEPT !.successful_updates = @ + 1, !.failed_updates = @ + 1]
  ELSE [s EXCEPT !.failed_updates = @ + 1]

\* TimeOracleTrigger::on_complete on the OracleStats.
on_complete(s, success, receipt) ==
  IF success
  THEN LET counted == [s EXCEPT !.successful_updates = @ + 1]
       IN IF IsSome(receipt)
          THEN LET gas_used == Unwrap(receipt).gas_used
               IN [counted EXCEPT
                     !.min_gas_used = Some(IF IsSome(@) THEN Min(Unwrap(@), gas_used)
                                           ELSE gas_used),
                     !.max_gas_used = Some(IF IsSome(@) THEN Max(Unwrap(@), gas_used)
                                           ELSE gas_used)]
          ELSE counted
  ELSE [s EXCEPT !.failed_updates = @ + 1]

\* The orchestrator reports the outcome of a request the trigger emitted;
\* gate_hist.completed counts the reports.
TimeOracle_on_complete ==
  /\ binary = "time-oracle"
  /\ gate_hist.completed < Len(ticks)
  /\ \E success \in BOOLEAN, receipt \in Receipts :
       stats' = on_complete(stats, success, receipt)
  /\ gate_hist' = [gate_hist EXCEPT !.completed = @ + 1]
  /\ UNCHANGED <<taskVars, ioVars, binary, now, paused, request, timer, ticks,
                 feedVars, twap_trigger>>

\* ---------------------------------------------------------------- clock

Horizon == IF binary = "time-oracle" THEN MaxTime ELSE MaxFeedTime

Tick ==
  /\ now < Horizon
  /\ now' = now + 1
  /\ UNCHANGED <<taskVars, ioVars, binary, gateVars, timeVars, feedVars, twap_trigger>>

\* ------------------------------------------------------------- TradeBuffer

\* The size cap evicting at the wrong end: the newest trade is dropped.
BufferPush_DropsNewest(buffer, trade) ==
  LET pushed == Append(buffer, trade)
  IN IF Len(pushed) > MaxBufferSize THEN SubSeq(pushed, 1, MaxBufferSize) ELSE pushed

\* Vec::push followed by the size-cap check of TradeBuffer::add_trade.
BufferPush(buffer, trade) ==
  LET pushed == Append(buffer, trade)
  IN IF Len(pushed) > MaxBufferSize THEN Tail(pushed) ELSE pushed

\* add_trade filing a trade of any other symbol under BTC.
TradeBuffer_add_trade_DefaultsToBtc(tb, symbol, trade) ==
  CASE symbol = "ETHUSDT" -> [tb EXCEPT !["ETHUSDT"] = BufferPush(@, trade)]
    [] OTHER -> [tb EXCEPT !["BTCUSDT"] = BufferPush(@, trade)]

\* add_trade pushing the trade onto both Vecs.
TradeBuffer_add_trade_BothBuffers(tb, symbol, trade) ==
  CASE symbol \in Symbols -> [s \in Symbols |-> BufferPush(tb[s], trade)]
    [] OTHER -> tb

TradeBuffer_add_trade(tb, symbol, trade) ==
  CASE symbol = "BTCUSDT" -> [tb EXCEPT !["BTCUSDT"] = BufferPush(@, trade)]
    [] symbol = "ETHUSDT" -> [tb EXCEPT !["ETHUSDT"] = BufferPush(@, trade)]
    [] OTHER -> tb

\* get_btc_trades / get_eth_trades: a clone of the Vec taken under the read lock.
get_trades(tb, symbol) == tb[symbol]

\* A clear that leaves the Vec as it is.
clear_symbol_Noop(tb, symbol) == tb

\* clear_btc / clear_eth.
clear_symbol(tb, symbol) == [tb EXCEPT ![symbol] = <<>>]

\* ---------------------------------------------------------- TwapCalculator

TwapCalculator_new(window_size) ==
  [window_size |-> window_size, trades |-> <<>>, last_twap |-> None]

\* now.saturating_sub(window_ms)
Cutoff(now_ms, window_ms) == IF now_ms >= window_ms THEN now_ms - window_ms ELSE 0

\* Eviction with `if` in place of `while`: at most one trade is popped.
remove_old_trades_Once(trades, cutoff) ==
  IF trades # <<>> /\ Head(trades).timestamp < cutoff THEN Tail(trades) ELSE trades

\* Eviction that empties the Window as soon as its front trade is stale.
remove_old_trades_DropsAll(trades, cutoff) ==
  IF trades # <<>> /\ Head(trades).timestamp < cutoff THEN <<>> ELSE trades

\* Eviction that also pops a front trade whose timestamp equals the cutoff.
RECURSIVE remove_old_trades_Inclusive(_, _)
remove_old_trades_Inclusive(trades, cutoff) ==
  IF trades # <<>> /\ Head(trades).timestamp <= cutoff
  THEN remove_old_trades_Inclusive(Tail(trades), cutoff)
  ELSE trades

RECURSIVE remove_old_trades(_, _)
remove_old_trades(trades, cutoff) ==
  IF trades # <<>> /\ Head(trades).timestamp < cutoff
  THEN remove_old_trades(Tail(trades), cutoff)
  ELSE trades

RECURSIVE TotalValue(_)
TotalValue(trades) ==
  IF trades = <<>> THEN 0
  ELSE Head(trades).price * Head(trades).quantity + TotalValue(Tail(trades))

RECURSIVE TotalVolume(_)
TotalVolume(trades) ==
  IF trades = <<>> THEN 0 ELSE Head(trades).quantity + TotalVolume(Tail(trades))

MinPrice(trades) ==
  CHOOSE p \in {trades[i].price : i \in 1..Len(trades)} :
    \A i \in 1..Len(trades) : p <= trades[i].price

MaxPrice(trades) ==
  CHOOSE p \in {trades[i].price : i \in 1..Len(trades)} :
    \A i \in 1..Len(trades) : p >= trades[i].price

\* calculate_twap answering an empty Window with a zero-valued result.
calculate_twap_ZeroOnEmpty(trades, now_ms) ==
  IF trades = <<>> \/ TotalVolume(trades) = 0
  THEN Some([price |-> <<0, 1>>, volume |-> 0, num_trades |-> 0,
             timestamp |-> now_ms, spread |-> None])
  ELSE Some([price      |-> <<TotalValue(trades), TotalVolume(trades)>>,
             volume     |-> TotalVolume(trades),
             num_trades |-> Len(trades),
             timestamp  |-> now_ms,
             spread     |-> Some(<<(MaxPrice(trades) - MinPrice(trades)) * 100,
                                   MinPrice(trades)>>)])

RECURSIVE TotalPrice(_)
TotalPrice(trades) ==
  IF trades = <<>> THEN 0 ELSE Head(trades).price + TotalPrice(Tail(trades))

\* calculate_twap with the plain mean of the prices in place of the
\* volume-weighted one.
calculate_twap_Unweighted(trades, now_ms) ==
  IF trades = <<>> THEN None
  ELSE IF TotalVolume(trades) = 0 THEN None
  ELSE Some([price      |-> <<TotalPrice(trades), Len(trades)>>,
             volume     |-> TotalVolume(trades),
             num_trades |-> Len(trades),
             timestamp  |-> now_ms,
             spread     |-> Some(<<(MaxPrice(trades) - MinPrice(trades)) * 100,
                                   MinPrice(trades)>>)])

\* calculate_twap without its `total_volume == 0.0` check.
calculate_twap_NoVolumeCheck(trades, now_ms) ==
  IF trades = <<>> THEN None
  ELSE Some([price      |-> <<TotalValue(trades), TotalVolume(trades)>>,
             volume     |-> TotalVolume(trades),
             num_trades |-> Len(trades),
             timestamp  |-> now_ms,
             spread     |-> Some(<<(MaxPrice(trades) - MinPrice(trades)) * 100,
                                   MinPrice(trades)>>)])

calculate_twap(trades, now_ms) ==
  IF trades = <<>> THEN None
  ELSE IF TotalVolume(trades) = 0 THEN None
  ELSE Some([price      |-> <<TotalValue(trades), TotalVolume(trades)>>,
             volume     |-> TotalVolume(trades),
             num_trades |-> Len(trades),
             timestamp  |-> now_ms,
             spread     |-> Some(<<(MaxPrice(trades) - MinPrice(trades)) * 100,
                                   MinPrice(trades)>>)])

\* The body shared by add_trade and add_trades_batch once the new trades are
\* pushed: evict, recompute, publish a non-absent result.
\* The tail of add_trade / add_trades_batch publishing whatever the
\* recomputation returned, absent included.
Recompute_PublishesAbsent(calc, pushed, now_ms) ==
  LET kept   == remove_old_trades(pushed, Cutoff(now_ms, calc.window_size))
      result == calculate_twap(kept, now_ms)
  IN [calc |-> [calc EXCEPT !.trades = kept, !.last_twap = result],
      ret  |-> result]

Recompute(calc, pushed, now_ms) ==
  LET kept   == remove_old_trades(pushed, Cutoff(now_ms, calc.window_size))
      result == calculate_twap(kept, now_ms)
  IN [calc |-> [calc EXCEPT !.trades = kept,
                            !.last_twap = IF IsSome(result) THEN result ELSE @],
      ret  |-> result]

TwapCalculator_add_trade(calc, trade, now_ms) ==
  Recompute(calc, Append(calc.trades, trade), now_ms)

\* add_trades_batch putting the batch in front of the Window.
add_trades_batch_PushFront(calc, new_trades, now_ms) ==
  Recompute(calc, new_trades \o calc.trades, now_ms)

add_trades_batch(calc, new_trades, now_ms) ==
  Recompute(calc, calc.trades \o new_trades, now_ms)

get_latest_twap(calc) == calc.last_twap

\* TwapCalculator::clear
TwapCalculator_clear(calc) == [calc EXCEPT !.trades = <<>>, !.last_twap = None]

\* History of a call that inserts: the Window right after the push, before
\* eviction, the cutoff remove_old_trades computed, and the value returned.
CallRecord(op, calc, pushed, now_ms) ==
  [op |-> op, pushed |-> pushed, cutoff |-> Cutoff(now_ms, calc.window_size),
   ret |-> Recompute(calc, pushed, now_ms).ret]

\* ------------------------------------------------- feed ingester (add_trade)

FeedSymbols == Symbols \cup {"SOLUSDT"}
Prices == {1}
Quantities == {1}
Makers == {FALSE}
\* trade_time of a message: the source clock may lag the local one.
FeedTimestamps(t) == {x \in {t - 1, t} : x >= 0}

IdsOf(trades) == {trades[i].id : i \in 1..Len(trades)}

\* The strings of a message that parse::<f64>() accepts, and their values.
Numerals == [x \in {"1"} |-> 1]
PriceStrings == {"1"}
QuantityStrings == {"1"}

\* str::parse::<f64>(): Ok(value) or Err.
parse_f64(str) == IF str \in DOMAIN Numerals THEN Some(Numerals[str]) ELSE None

\* unwrap_or falling back to 1 whatever default it is given.
unwrap_or_One(o, default) == IF IsSome(o) THEN Unwrap(o) ELSE 1

\* Result::unwrap_or(default)
unwrap_or(o, default) == IF IsSome(o) THEN Unwrap(o) ELSE default

\* impl From<BinanceTrade> for Trade.  `id` and `msg` are history tags: the
\* sequence number of the message and the strings it carried.
Trade_from(id, msg) ==
  [id |-> id,
   msg |-> [price |-> msg.price, quantity |-> msg.quantity,
            trade_time |-> msg.trade_time, is_buyer_maker |-> msg.is_buyer_maker],
   price |-> unwrap_or(parse_f64(msg.price), 0),
   quantity |-> unwrap_or(parse_f64(msg.quantity), 0),
   timestamp |-> msg.trade_time,
   is_buyer_maker |-> msg.is_buyer_maker]

\* process_message converting an envelope of any event type.
on_envelope_AnyEvent(tb, event_type, symbol, trade) ==
  TradeBuffer_add_trade(tb, symbol, trade)

\* process_message on a decoded envelope: only the "trade" event is
\* converted and appended.
on_envelope(tb, event_type, symbol, trade) ==
  IF event_type = "trade" THEN TradeBuffer_add_trade(tb, symbol, trade) ELSE tb

\* process_message on a trade message with its symbol in S, its price and
\* quantity strings a pair of PQ, its maker flag in M and its trade_time in
\* TS: Trade::from, then TradeBuffer::add_trade.
IngestOf(S, PQ, M, TS) ==
  /\ binary = "binance-oracle"
  /\ ws_handle # "exited"
  /\ next_id <= MaxTrades
  /\ \E symbol \in S, pq \in PQ, m \in M, ts \in TS :
       LET msg == [event_type |-> "trade", symbol |-> symbol, price |-> pq[1],
                   quantity |-> pq[2], trade_time |-> ts, is_buyer_maker |-> m]
           trade == Trade_from(next_id, msg)
           after == on_envelope(trade_buffer, msg.event_type, symbol, trade)
       IN /\ trade_buffer' = after
          /\ feed_hist' =
               IF symbol \in Symbols
               THEN [feed_hist EXCEPT
                       !.appended = @ \cup {next_id},
                       !.log[symbol] = Append(@, next_id),
                       !.cap_evicted = @ \cup (IdsOf(trade_buffer[symbol])
                                                 \ IdsOf(after[symbol]))]
               ELSE feed_hist
  /\ next_id' = next_id + 1
  /\ UNCHANGED <<taskVars, ioVars, binary, now, gateVars, timeVars, calculator, drain,
                 twap_trigger, calc_hist>>

Ingest ==
  IngestOf(FeedSymbols, PriceStrings \X QuantityStrings, Makers, FeedTimestamps(now))

\* A feed of BTC trade messages some of whose price or quantity strings do
\* not parse.
ParseMessages == {<<"1", "1">>, <<"abc", "1">>, <<"1", "">>}
ParseIngest == IngestOf({"BTCUSDT"}, ParseMessages, {TRUE}, {now})

\* ------------------------------------------------- BinanceWebSocketClient

\* The client as run() finds it: about to make its first connection attempt.
BinanceWebSocketClient_new ==
  [pc |-> "connecting", session |-> 1, retry_at |-> 0, sent |-> None,
   skipped |-> "none", pinged |-> None, ping_tasks |-> {}]

\* run() returning the error of connect_and_process to its caller.
run_after_ReturnsOnErr(result) ==
  IF result = "Err" THEN "exited" ELSE "backoff"

\* What run() does once connect_and_process has returned: both arms of the
\* match log and fall through to sleep(reconnect_delay).
run_after(result) ==
  CASE result = "Ok"  -> "backoff"
    [] result = "Err" -> "backoff"

\* The keep-alive tasks alive once connect_and_process has returned: the
\* break path ends in ping_task.abort(); an error return through `?` skips
\* it and drops the JoinHandle, which detaches the task.
ping_tasks_after(tasks, session, result) ==
  IF result = "Ok" THEN tasks \ {session} ELSE tasks

\* connect_and_process returns `result` to run().
Return(result) ==
  conn' = [conn EXCEPT !.pc = run_after(result),
                       !.retry_at = now + ReconnectDelay,
                       !.sent = None,
                       !.skipped = "none",
                       !.pinged = None,
                       !.ping_tasks = ping_tasks_after(@, conn.session, result)]

\* The select loop of connect_and_process is waiting for its next event.
Selecting == conn.pc = "connected" /\ conn.pinged = None

Message_Ping(data) == [type |-> "Ping", data |-> data]

\* A Pong that drops the payload of the Ping.
Message_Pong_Empty(data) == [type |-> "Pong", data |-> <<>>]

Message_Pong(data) == [type |-> "Pong", data |-> data]

\* Payloads of the Ping frames the server sends.
PingPayloads == {<<>>, <<"p">>}

\* The behaviour has a connection attempt left, and the clock reaches the
\* end of the sleep that follows a failure.
MayFail == conn.session < MaxSessions /\ now + ReconnectDelay <= Horizon

\* Text messages that carry no trade.
TextKinds == {"invalid_json", "no_data", "not_trade_envelope", "other_event"}

\* The Result of process_message on a text message of each kind: from_str
\* fails on invalid JSON and `?` returns the error; a value without a data
\* field, a data field that is not a trade envelope (logged) and an envelope
\* of another event type all reach Ok(()).
process_message(kind) ==
  IF kind = "invalid_json" THEN "Err" ELSE "Ok"

\* timeout(10 s, connect_async(url)): connected, timed out, or failed.
Connect ==
  /\ binary = "binance-oracle"
  /\ ws_handle # "exited"
  /\ conn.pc = "connecting"
  /\ \E outcome \in {"connected", "timeout", "error"} :
       IF outcome = "connected"
       THEN \* the ping task of this connection is spawned
            conn' = [conn EXCEPT !.pc = "connected",
                                 !.ping_tasks = @ \cup {conn.session}]
       ELSE MayFail /\ Return("Err")
  /\ UNCHANGED <<taskVars, binary, now, gateVars, timeVars, feedVars, twap_trigger,
                 writers, reader>>

\* Some(Ok(Message::Text(text))) with a trade message: process_message appends.
RecvTrade ==
  /\ Selecting
  /\ Ingest

\* Some(Ok(Message::Text(text))) with a message of kind `kind`:
\* self.process_message(&text)?
RecvText(kind) ==
  /\ binary = "binance-oracle"
  /\ ws_handle # "exited"
  /\ Selecting
  /\ IF process_message(kind) = "Ok"
     THEN conn' = [conn EXCEPT !.skipped = kind]
     ELSE MayFail /\ Return("Err")
  /\ trade_buffer' =
       IF kind = "other_event"
       THEN \* a well-formed envelope of another stream event
            on_envelope(trade_buffer, "aggTrade", "BTCUSDT",
                        Trade_from(next_id, [price |-> "1", quantity |-> "1",
                                             trade_time |-> now,
                                             is_buyer_maker |-> FALSE]))
       ELSE trade_buffer
  /\ UNCHANGED <<taskVars, binary, now, gateVars, timeVars, calculator, drain, next_id,
                 feed_hist, calc_hist, twap_trigger, writers, reader>>

RecvSkipped == \E kind \in TextKinds : RecvText(kind)

\* Some(Ok(Message::Ping(data))): write.send(Message::Pong(data)).await?
RecvPing ==
  /\ binary = "binance-oracle"
  /\ ws_handle # "exited"
  /\ Selecting
  /\ \E data \in PingPayloads : conn' = [conn EXCEPT !.pinged = Some(data)]
  /\ UNCHANGED <<taskVars, binary, now, gateVars, timeVars, feedVars, twap_trigger,
                 writers, reader>>

\* write.send(Message::Pong(data)).await? completes; the loop then selects
\* its next event.
SendPong ==
  /\ binary = "binance-oracle"
  /\ ws_handle # "exited"
  /\ conn.pc = "connected"
  /\ IsSome(conn.pinged)
  /\ \E send \in {"Ok", "Err"} :
       IF send = "Ok"
       THEN conn' = [conn EXCEPT !.sent = Some(Message_Pong(Unwrap(conn.pinged))),
                                 !.pinged = None]
       ELSE MayFail /\ Return("Err")
  /\ UNCHANGED <<taskVars, binary, now, gateVars, timeVars, feedVars, twap_trigger,
                 writers, reader>>

\* A keep-alive task whose connection has returned finds its channel closed
\* at its next ping_tx.send(()) and breaks out of its loop.
PingTaskExit ==
  /\ binary = "binance-oracle"
  /\ ws_handle # "exited"
  /\ \E s \in conn.ping_tasks :
       /\ s # conn.session \/ conn.pc # "connected"
       /\ conn' = [conn EXCEPT !.ping_tasks = @ \ {s}]
  /\ UNCHANGED <<taskVars, binary, now, gateVars, timeVars, feedVars, twap_trigger,
                 writers, reader>>

\* ping_rx.recv(): write.send(Message::Ping(vec![])).await?
PingTimer ==
  /\ binary = "binance-oracle"
  /\ ws_handle # "exited"
  /\ Selecting
  /\ \E send \in {"Ok", "Err"} :
       IF send = "Ok"
       THEN conn' = [conn EXCEPT !.sent = Some(Message_Ping(<<>>))]
       ELSE MayFail /\ Return("Err")
  /\ UNCHANGED <<taskVars, binary, now, gateVars, timeVars, feedVars, twap_trigger,
                 writers, reader>>

\* A trade message of either symbol, stamped with the current time.
FrameRecvTrade ==
  /\ Selecting
  /\ IngestOf(Symbols, {<<"1", "1">>}, Makers, {now})

\* A text message that is no trade: one that does not decode and one that
\* carries another stream event.
FrameRecvOther == \E kind \in {"invalid_json", "other_event"} : RecvText(kind)

\* A close frame, a read error or the end of the stream: break, then Ok(()).
RecvEnd ==
  /\ binary = "binance-oracle"
  /\ ws_handle # "exited"
  /\ Selecting
  /\ MayFail
  /\ \E how \in {"close", "read_error", "stream_end"} : Return("Ok")
  /\ UNCHANGED <<taskVars, binary, now, gateVars, timeVars, feedVars, twap_trigger,
                 writers, reader>>

\* sleep(self.reconnect_delay) returns and the loop of run() starts over.
Reconnect ==
  /\ binary = "binance-oracle"
  /\ ws_handle # "exited"
  /\ conn.pc = "backoff"
  /\ now >= conn.retry_at
  /\ conn' = [conn EXCEPT !.pc = "connecting", !.session = @ + 1]
  /\ UNCHANGED <<taskVars, binary, now, gateVars, timeVars, feedVars, twap_trigger,
                 writers, reader>>

\* ------------------------------------------------------ drain loop of main

DrainSymbol == [btc_get |-> "BTCUSDT", btc_batch |-> "BTCUSDT", btc_clear |-> "BTCUSDT",
                eth_get |-> "ETHUSDT", eth_batch |-> "ETHUSDT", eth_clear |-> "ETHUSDT"]

\* interval.tick().await returns: a new iteration starts.  The await is the
\* only point where the abort of the task can take effect.
DrainTick ==
  /\ binary = "binance-oracle"
  /\ ws_handle = "running"
  /\ drain.pc = "tick"
  /\ drain' = [drain EXCEPT !.pc = "btc_get"]
  /\ feed_hist' = [feed_hist EXCEPT !.tick_at = now]
  /\ UNCHANGED <<taskVars, ioVars, binary, now, gateVars, timeVars, trade_buffer, calculator,
                 twap_trigger, next_id, calc_hist>>

\* let btc_trades = get_btc_trades(); if !btc_trades.is_empty() { ... }
DrainGet ==
  /\ binary = "binance-oracle"
  /\ drain.pc \in {"btc_get", "eth_get"}
  /\ LET got == get_trades(trade_buffer, DrainSymbol[drain.pc])
     IN drain' = IF got # <<>>
                 THEN [pc |-> IF drain.pc = "btc_get" THEN "btc_batch" ELSE "eth_batch",
                       trades |-> got]
                 ELSE [pc |-> IF drain.pc = "btc_get" THEN "eth_get" ELSE "tick",
                       trades |-> <<>>]
  /\ feed_hist' = IF drain'.pc = "tick" THEN [feed_hist EXCEPT !.tick_at = 0]
                  ELSE feed_hist
  /\ UNCHANGED <<taskVars, ioVars, binary, now, gateVars, timeVars, trade_buffer, calculator,
                 twap_trigger, next_id, calc_hist>>

\* calc.add_trades_batch(btc_trades)
DrainBatch ==
  /\ binary = "binance-oracle"
  /\ drain.pc \in {"btc_batch", "eth_batch"}
  /\ LET symbol == DrainSymbol[drain.pc]
         r == add_trades_batch(calculator[symbol], drain.trades, now)
     IN /\ calculator' = [calculator EXCEPT ![symbol] = r.calc]
        /\ feed_hist' = [feed_hist EXCEPT
                           !.inserted = [i \in DOMAIN @ |->
                                           IF i \in IdsOf(drain.trades)
                                           THEN @[i] + 1 ELSE @[i]]]
  /\ drain' = [pc |-> IF drain.pc = "btc_batch" THEN "btc_clear" ELSE "eth_clear",
               trades |-> <<>>]
  /\ calc_hist' = IF drain.pc = "btc_batch"
                  THEN CallRecord("add_trades_batch", calculator["BTCUSDT"],
                                  calculator["BTCUSDT"].trades \o drain.trades, now)
                  ELSE calc_hist
  /\ UNCHANGED <<taskVars, ioVars, binary, now, gateVars, timeVars, trade_buffer, twap_trigger, next_id>>

\* trade_buffer.clear_btc() / clear_eth()
DrainClear ==
  /\ binary = "binance-oracle"
  /\ drain.pc \in {"btc_clear", "eth_clear"}
  /\ trade_buffer' = clear_symbol(trade_buffer, DrainSymbol[drain.pc])
  /\ feed_hist' = [feed_hist EXCEPT
                     !.log[DrainSymbol[drain.pc]] = <<>>,
                     !.tick_at = IF drain.pc = "eth_clear" THEN 0 ELSE @]
  /\ drain' = [pc |-> IF drain.pc = "btc_clear" THEN "eth_get" ELSE "tick",
               trades |-> <<>>]
  /\ UNCHANGED <<taskVars, ioVars, binary, now, gateVars, timeVars, calculator, twap_trigger, next_id,
                 calc_hist>>

\* ------------------------------------------------------ BinanceTwapTrigger

MinTradesForUpdate == 1

BinanceTwapTrigger_new(created_at, update_interval) ==
  [last_update |-> created_at, update_interval |-> update_interval,
   min_trades_for_update |-> MinTradesForUpdate, last_btc_price |-> None]

\* should_trigger stamping last_update on an evaluation it suppresses.
TwapDecision_StampsOnSuppress(trig, btc_twap, t) ==
  IF t - trig.last_update < trig.update_interval
  THEN [trigger |-> trig, ret |-> None]
  ELSE IF IsSome(btc_twap) /\ Unwrap(btc_twap).num_trades >= trig.min_trades_for_update
       THEN [trigger |-> [trig EXCEPT
                            !.last_update = t,
                            !.last_btc_price = Some(Unwrap(btc_twap).price)],
             ret |-> Some([type   |-> "twap_update",
                           price  |-> Unwrap(btc_twap).price,
                           trades |-> Unwrap(btc_twap).num_trades,
                           volume |-> Unwrap(btc_twap).volume])]
       ELSE [trigger |-> [trig EXCEPT !.last_update = t], ret |-> None]

\* should_trigger past the pause check: the interval check, the read of the
\* latest BTC TwapResult, the trade-count check and the request.
TwapDecision(trig, btc_twap, t) ==
  LET time_since_last == t - trig.last_update
  IN IF time_since_last < trig.update_interval
     THEN [trigger |-> trig, ret |-> None]
     ELSE IF IsSome(btc_twap)
          THEN IF Unwrap(btc_twap).num_trades < trig.min_trades_for_update
               THEN [trigger |-> trig, ret |-> None]
               ELSE [trigger |-> [trig EXCEPT
                                    !.last_update = t,
                                    !.last_btc_price = Some(Unwrap(btc_twap).price)],
                     ret |-> Some([type   |-> "twap_update",
                                   price  |-> Unwrap(btc_twap).price,
                                   trades |-> Unwrap(btc_twap).num_trades,
                                   volume |-> Unwrap(btc_twap).volume])]
          ELSE [trigger |-> trig, ret |-> None]

\* should_trigger without its pause check.
BinanceTwapTrigger_IgnoresGate(trig, is_paused, btc_twap, t) ==
  TwapDecision(trig, btc_twap, t)

BinanceTwapTrigger_should_trigger(trig, is_paused, btc_twap, t) ==
  IF is_paused
  THEN [trigger |-> trig, ret |-> None]
  ELSE TwapDecision(trig, btc_twap, t)

Twap_should_trigger ==
  /\ binary = "binance-oracle"
  /\ LET r == BinanceTwapTrigger_should_trigger(
                twap_trigger, paused, get_latest_twap(calculator["BTCUSDT"]), now)
     IN /\ twap_trigger' = r.trigger
        /\ request' = r.ret
        /\ gate_hist' = IF IsSome(r.ret)
                        THEN [gate_hist EXCEPT !.fired_since_resume = TRUE]
                        ELSE IF paused
                        THEN [gate_hist EXCEPT !.suppressed = TRUE]
                        ELSE gate_hist
  /\ UNCHANGED <<taskVars, ioVars, binary, now, paused, timeVars, feedVars>>

\* -------------------------------------------- calls on the BTC calculator

CalcPrices == {100, 200}
CalcQuantities == {0, 1}

\* A trade a caller hands to the calculator.
CalcTrade(id, p, q, ts, m) ==
  [id |-> id, price |-> p, quantity |-> q, timestamp |-> ts, is_buyer_maker |-> m]

\* btc_calculator.add_trade(trade), the trade with a price in P, a quantity in
\* Q, a side in M and a timestamp in TS
AddTradeOf(P, Q, M, TS) ==
  /\ binary = "binance-oracle"
  /\ next_id <= MaxTrades
  /\ \E p \in P, q \in Q, m \in M, ts \in TS :
       LET trade == CalcTrade(next_id, p, q, ts, m)
           calc  == calculator["BTCUSDT"]
       IN /\ calculator' = [calculator EXCEPT
                              !["BTCUSDT"] = TwapCalculator_add_trade(calc, trade, now).calc]
          /\ calc_hist' = CallRecord("add_trade", calc, Append(calc.trades, trade), now)
  /\ next_id' = next_id + 1
  /\ UNCHANGED <<taskVars, ioVars, binary, now, gateVars, timeVars, trade_buffer, drain,
                 twap_trigger, feed_hist>>

\* btc_calculator.add_trades_batch(new_trades), new_trades of one or two
\* trades with prices in P, quantities in Q, sides in M and timestamps in TS
AddBatchOf(P, Q, M, TS) ==
  /\ binary = "binance-oracle"
  /\ \E n \in 1..2 :
       /\ next_id + n - 1 <= MaxTrades
       /\ \E p \in [1..n -> P], q \in [1..n -> Q], m \in [1..n -> M],
             ts \in [1..n -> TS] :
            LET new_trades == [i \in 1..n |->
                                 CalcTrade(next_id + i - 1, p[i], q[i], ts[i], m[i])]
                calc == calculator["BTCUSDT"]
            IN /\ calculator' = [calculator EXCEPT
                                   !["BTCUSDT"] = add_trades_batch(calc, new_trades, now).calc]
               /\ calc_hist' = CallRecord("add_trades_batch", calc,
                                          calc.trades \o new_trades, now)
       /\ next_id' = next_id + n
  /\ UNCHANGED <<taskVars, ioVars, binary, now, gateVars, timeVars, trade_buffer, drain,
                 twap_trigger, feed_hist>>

\* A caller's add_trade, of any price and quantity (a quantity may be 0).
CalcAddTrade == AddTradeOf(CalcPrices, CalcQuantities, Makers, FeedTimestamps(now))

\* A caller's batch, of any prices and quantities (a quantity may be 0).
CalcAddBatch == AddBatchOf(CalcPrices, CalcQuantities, Makers, FeedTimestamps(now))

\* The batch the drain loop hands over: trades as the feed delivers them.
FeedBatch == AddBatchOf(Prices, Quantities, Makers, FeedTimestamps(now))

\* btc_calculator.clear()
CalcClear ==
  /\ binary = "binance-oracle"
  /\ calculator["BTCUSDT"].trades # <<>> \/ IsSome(calculator["BTCUSDT"].last_twap)
  /\ calculator' = [calculator EXCEPT !["BTCUSDT"] = TwapCalculator_clear(@)]
  /\ calc_hist' = [op |-> "clear", pushed |-> <<>>, cutoff |-> 0, ret |-> None]
  /\ UNCHANGED <<taskVars, ioVars, binary, now, gateVars, timeVars, trade_buffer, drain, twap_trigger,
                 next_id, feed_hist>>

\* ------------------------------- TwapCalculator, one lock region per step

\* Threads that call add_trade / add_trades_batch, and the one that calls clear.
Threads == {"w1", "w2"}
Clearer == "c"

\* `if let Some(ref twap) = result { *self.last_twap.write() = Some(twap.clone()) }`
\* writing one field of the published result instead of the whole value.
store_last_twap_PriceOnly(last_twap, result) ==
  IF IsSome(result)
  THEN IF IsSome(last_twap)
       THEN Some([Unwrap(last_twap) EXCEPT !.price = Unwrap(result).price])
       ELSE result
  ELSE last_twap

\* `if let Some(ref twap) = result { *self.last_twap.write() = Some(twap.clone()) }`
store_last_twap(last_twap, result) ==
  IF IsSome(result) THEN result ELSE last_twap

BtcCalc == calculator["BTCUSDT"]

\* The call each thread makes: w1 add_trade (one trade), w2 add_trades_batch
\* (two trades).
BatchLen == [w1 |-> 1, w2 |-> 2]

\* The price of the trade with sequence number id: distinct trades differ.
PriceOf(id) == 100 * id

\* add_trade / add_trades_batch up to drop(trades): the trades are pushed
\* under the write lock of `trades`.
Writer_push ==
  /\ binary = "binance-oracle"
  /\ \E t \in Threads :
       LET n == BatchLen[t]
           new_trades == [i \in 1..n |->
                            CalcTrade(next_id + i - 1, PriceOf(next_id + i - 1), 1,
                                      now, FALSE)]
           pushed == BtcCalc.trades \o new_trades
       IN /\ writers.pc[t] = "idle"
          /\ next_id + n - 1 <= MaxTrades
          /\ calculator' = [calculator EXCEPT !["BTCUSDT"].trades = pushed]
          /\ writers' = [writers EXCEPT !.pc[t] = "remove_old_trades",
                                        !.seen = @ \cup {pushed}]
          /\ next_id' = next_id + n
  /\ UNCHANGED <<taskVars, binary, now, gateVars, timeVars, trade_buffer, drain, twap_trigger,
                 feed_hist, calc_hist, conn, reader>>

\* self.remove_old_trades(): the eviction, under the write lock of `trades`.
Writer_remove_old_trades ==
  /\ binary = "binance-oracle"
  /\ \E t \in Threads :
       /\ writers.pc[t] = "remove_old_trades"
       /\ LET kept == remove_old_trades(BtcCalc.trades, Cutoff(now, BtcCalc.window_size))
          IN /\ calculator' = [calculator EXCEPT !["BTCUSDT"].trades = kept]
             /\ writers' = [writers EXCEPT !.pc[t] = "calculate_twap",
                                           !.seen = @ \cup {kept}]
  /\ UNCHANGED <<taskVars, binary, now, gateVars, timeVars, trade_buffer, drain, twap_trigger,
                 next_id, feed_hist, calc_hist, conn, reader>>

\* let result = self.calculate_twap(): the whole computation runs under one
\* read lock of `trades`.
Writer_calculate_twap ==
  /\ binary = "binance-oracle"
  /\ \E t \in Threads :
       /\ writers.pc[t] = "calculate_twap"
       /\ writers' = [writers EXCEPT !.pc[t] = "store",
                                     !.result[t] = calculate_twap(BtcCalc.trades, now)]
  /\ UNCHANGED <<taskVars, binary, now, gateVars, timeVars, feedVars, twap_trigger, conn, reader>>

\* The result is stored under the write lock of `last_twap`, and returned.
Writer_store ==
  /\ binary = "binance-oracle"
  /\ \E t \in Threads :
       /\ writers.pc[t] = "store"
       /\ calculator' = [calculator EXCEPT !["BTCUSDT"].last_twap =
                            store_last_twap(@, writers.result[t])]
       /\ writers' = [writers EXCEPT !.pc[t] = "idle", !.result[t] = None]
  /\ UNCHANGED <<taskVars, binary, now, gateVars, timeVars, trade_buffer, drain, twap_trigger,
                 next_id, feed_hist, calc_hist, conn, reader>>

\* clear(): self.trades.write().clear()
Clear_trades ==
  /\ binary = "binance-oracle"
  /\ writers.pc[Clearer] = "idle"
  /\ BtcCalc.trades # <<>> \/ IsSome(BtcCalc.last_twap)
  /\ calculator' = [calculator EXCEPT !["BTCUSDT"].trades = <<>>]
  /\ writers' = [writers EXCEPT !.pc[Clearer] = "last_twap"]
  /\ UNCHANGED <<taskVars, binary, now, gateVars, timeVars, trade_buffer, drain, twap_trigger,
                 next_id, feed_hist, calc_hist, conn, reader>>

\* clear(): *self.last_twap.write() = None
Clear_last_twap ==
  /\ binary = "binance-oracle"
  /\ writers.pc[Clearer] = "last_twap"
  /\ calculator' = [calculator EXCEPT !["BTCUSDT"].last_twap = None]
  /\ writers' = [writers EXCEPT !.pc[Clearer] = "idle"]
  /\ UNCHANGED <<taskVars, binary, now, gateVars, timeVars, trade_buffer, drain, twap_trigger,
                 next_id, feed_hist, calc_hist, conn, reader>>

\* A consumer calls get_latest_twap(): a clone taken under the read lock.
Reader_get_latest_twap ==
  /\ binary = "binance-oracle"
  /\ reader' = [reader EXCEPT !.twap = get_latest_twap(BtcCalc)]
  /\ UNCHANGED <<taskVars, binary, now, gateVars, timeVars, feedVars, twap_trigger, conn, writers>>

\* ----------------------------------------------------------- MarketQuality

\* #[derive(Default)]: every f64 is 0.0 and the bool is false.  The field
\* volatility holds the variance v of the price changes, the value the
\* code returns being sqrt(v) * 100.
MarketQuality_default ==
  [volatility      |-> <<0, 1>>,
   trade_frequency |-> <<0, 1>>,
   buy_sell_ratio  |-> <<0, 1>>,
   is_healthy      |-> FALSE]

RECURSIVE BuyVolume(_)
BuyVolume(trades) ==
  IF trades = <<>> THEN 0
  ELSE (IF Head(trades).is_buyer_maker THEN 0 ELSE Head(trades).quantity)
         + BuyVolume(Tail(trades))

RECURSIVE SellVolume(_)
SellVolume(trades) ==
  IF trades = <<>> THEN 0
  ELSE (IF Head(trades).is_buyer_maker THEN Head(trades).quantity ELSE 0)
         + SellVolume(Tail(trades))

Abs(x) == IF x < 0 THEN 0 - x ELSE x

RECURSIVE Gcd(_, _)
Gcd(a, b) == IF b = 0 THEN a ELSE Gcd(b, a % b)

\* The quotient a / b in lowest terms.
Quotient(a, b) ==
  LET g == Gcd(Abs(a), Abs(b)) IN <<a \div g, b \div g>>

\* price_changes: (trade.price - prev_price) / prev_price for every trade but
\* the first.
price_changes(trades) ==
  [i \in 1..(Len(trades) - 1) |->
     Quotient(trades[i + 1].price - trades[i].price, trades[i].price)]

RECURSIVE Denominator(_)
Denominator(changes) ==
  IF changes = <<>> THEN 1 ELSE Head(changes)[2] * Denominator(Tail(changes))

RECURSIVE Sum(_)
Sum(xs) == IF xs = <<>> THEN 0 ELSE Head(xs) + Sum(Tail(xs))

\* variance: the mean of (x - mean)^2 over the price changes x, as one
\* quotient over the common denominator; <<1, 0>> is a value that is not
\* finite (a previous price of 0).
variance(changes) ==
  IF \E i \in 1..Len(changes) : changes[i][2] = 0 THEN <<1, 0>>
  ELSE LET n == Len(changes)
           d == Denominator(changes)
           x == [i \in 1..n |-> changes[i][1] * (d \div changes[i][2])]
           sq == [i \in 1..n |-> (n * x[i] - Sum(x)) * (n * x[i] - Sum(x))]
       IN <<Sum(sq), n * n * n * d * d>>

\* The result of `a - b` on u64 when it wraps: 2^64 - below.
U64Wrapped(below) == [two64_minus |-> below]

\* (last.timestamp - first.timestamp) in milliseconds, without the overflow
\* check.
duration_ms(trades) ==
  LET first == trades[1].timestamp
      last  == trades[Len(trades)].timestamp
  IN IF last >= first THEN last - first ELSE U64Wrapped(first - last)

\* The subtraction overflows: a build with overflow checks panics there.
DurationOverflows(trades) ==
  Len(trades) >= 2 /\ trades[Len(trades)].timestamp < trades[1].timestamp

\* trades.len() / duration with duration in seconds; a wrapped duration is
\* above 2^63 ms, which makes the quotient positive and far below 0.1.
trade_frequency(trades) ==
  IF DurationOverflows(trades)
  THEN [value |-> <<Len(trades) * 1000, duration_ms(trades)>>, above_tenth |-> FALSE]
  ELSE LET d == duration_ms(trades)
       IN IF d > 0
          THEN [value |-> <<Len(trades) * 1000, d>>,
                above_tenth |-> Len(trades) * 1000 * 10 > d]
          ELSE [value |-> <<0, 1>>, above_tenth |-> FALSE]

\* volatility < 1.0 with volatility = sqrt(v) * 100: v * 10^4 < 1.
VolatilityBelowOne(v) == v[2] # 0 /\ v[1] * 10000 < v[2]

\* get_market_quality with the two sides exchanged.
get_market_quality_SidesSwapped(trades) ==
  IF Len(trades) < 2 THEN MarketQuality_default
  ELSE LET total_volume == BuyVolume(trades) + SellVolume(trades)
           changes == price_changes(trades)
           v == IF changes # <<>> THEN variance(changes) ELSE <<0, 1>>
           f == trade_frequency(trades)
       IN [volatility      |-> v,
           trade_frequency |-> f.value,
           buy_sell_ratio  |-> IF total_volume > 0
                               THEN <<SellVolume(trades), total_volume>>
                               ELSE <<1, 2>>,
           is_healthy      |-> VolatilityBelowOne(v) /\ f.above_tenth]

\* get_market_quality with the neutral ratio in the default.
get_market_quality_NeutralDefault(trades) ==
  IF Len(trades) < 2 THEN [MarketQuality_default EXCEPT !.buy_sell_ratio = <<1, 2>>]
  ELSE LET total_volume == BuyVolume(trades) + SellVolume(trades)
           changes == price_changes(trades)
           v == IF changes # <<>> THEN variance(changes) ELSE <<0, 1>>
           f == trade_frequency(trades)
       IN [volatility      |-> v,
           trade_frequency |-> f.value,
           buy_sell_ratio  |-> IF total_volume > 0
                               THEN <<BuyVolume(trades), total_volume>>
                               ELSE <<1, 2>>,
           is_healthy      |-> VolatilityBelowOne(v) /\ f.above_tenth]

\* get_market_quality over the Window, where the subtraction does not panic.
get_market_quality(trades) ==
  IF Len(trades) < 2 THEN MarketQuality_default
  ELSE LET total_volume == BuyVolume(trades) + SellVolume(trades)
           changes == price_changes(trades)
           v == IF changes # <<>> THEN variance(changes) ELSE <<0, 1>>
           f == trade_frequency(trades)
       IN [volatility      |-> v,
           trade_frequency |-> f.value,
           buy_sell_ratio  |-> IF total_volume > 0
                               THEN <<BuyVolume(trades), total_volume>>
                               ELSE <<1, 2>>,
           is_healthy      |-> VolatilityBelowOne(v) /\ f.above_tenth]

\* Whether the build checks integer overflow (the debug profile does, the
\* release profile does not).
OverflowChecks == BOOLEAN

\* A consumer calls get_market_quality(); `window` is the Window it was
\* computed over.  Under overflow checks, a subtraction that overflows
\* panics in the caller and nothing is returned.
Reader_get_market_quality ==
  /\ binary = "binance-oracle"
  /\ \E checks \in OverflowChecks :
       LET panics == checks /\ DurationOverflows(BtcCalc.trades)
       IN reader' = [reader EXCEPT
                       !.quality = IF panics THEN None
                                   ELSE Some(get_market_quality(BtcCalc.trades)),
                       !.panicked = panics,
                       !.window = BtcCalc.trades]
  /\ UNCHANGED <<taskVars, binary, now, gateVars, timeVars, feedVars, twap_trigger, conn, writers>>

\* A batch of trades of either side, some of quantity 0.
QualityAddBatch == AddBatchOf({100}, CalcQuantities, {TRUE, FALSE}, {now})

\* A trade or a batch whose timestamps may be older than the window.
StaleTimestamps(t) == {0} \cup FeedTimestamps(t)

WindowAddTrade == AddTradeOf({100}, {1}, Makers, StaleTimestamps(now))

WindowAddBatch == AddBatchOf({100}, {1}, Makers, StaleTimestamps(now))

\* Trades whose exchange timestamp is the current or the previous millisecond,
\* in the order of arrival.
FrequencyAddTrade == AddTradeOf({100}, {1}, {TRUE}, FeedTimestamps(now))

FrequencyAddBatch == AddBatchOf({100}, {1}, {TRUE}, FeedTimestamps(now))

\* Trade.quantity is an f64 and nothing on the way to the Window checks its
\* sign: parse::<f64>() accepts "-1".
SignedQuantities == {-1, 0, 1}

VolumeAddTrade == AddTradeOf({100}, SignedQuantities, Makers, {now})

VolumeAddBatch == AddBatchOf({100}, SignedQuantities, Makers, {now})

\* ------------------------------------------------------- shutdown of main
\* main spawns the background task and keeps its JoinHandle (ws_handle).
\* That task spawns ws_client.run() as a task of its own, keeps only the
\* dropped handle `_ws_task`, and then runs the drain loop.

\* signal::ctrl_c().await returns and main calls ws_handle.abort().  The
\* abort reaches the task whose handle it is, at that task's next await;
\* the task spawned inside it is detached and is not aborted with it.
Shutdown ==
  /\ binary = "binance-oracle"
  /\ ws_handle = "running"
  /\ ws_handle' = "aborted"
  /\ UNCHANGED <<binary, now, gateVars, timeVars, feedVars, twap_trigger, ioVars,
                 sync, evaluators>>

\* handle.shutdown().await returns and main returns: the runtime is dropped
\* and every task still alive ends with the process.
ProcessExit ==
  /\ binary = "binance-oracle"
  /\ ws_handle = "aborted"
  /\ ws_handle' = "exited"
  /\ UNCHANGED <<binary, now, gateVars, timeVars, feedVars, twap_trigger, ioVars,
                 sync, evaluators>>

\* ------------------------- BinanceTwapTrigger::should_trigger, step by step
\* The same method as evaluated by tasks that share the trigger: each guard
\* of last_update is a temporary, so the read of the interval check and the
\* write of the emission are separate lock regions.

Evaluators == {"e1", "e2"}

\* The pause check, `let now = Instant::now()`, the read of last_update and
\* the interval check.
Eval_check_interval(e) ==
  /\ binary = "binance-oracle"
  /\ evaluators.pc[e] = "idle"
  /\ IF paused \/ now - twap_trigger.last_update < twap_trigger.update_interval
     THEN evaluators' = [evaluators EXCEPT !.at[e] = now]
     ELSE evaluators' = [evaluators EXCEPT !.pc[e] = "interval_passed", !.at[e] = now]
  /\ request' = IF evaluators'.pc[e] = "idle" THEN None ELSE request
  /\ UNCHANGED <<binary, now, paused, gate_hist, timeVars, feedVars, twap_trigger,
                 ioVars, ws_handle, sync>>

\* BinanceTwapTrigger::on_complete: the outcome is logged and nothing is
\* written; gate_hist.completed counts the reports.
Twap_on_complete ==
  /\ binary = "binance-oracle"
  /\ gate_hist.completed < Len(evaluators.signals)
  /\ \E success \in BOOLEAN, receipt \in Receipts :
       gate_hist' = [gate_hist EXCEPT !.completed = @ + 1]
  /\ UNCHANGED <<binary, now, paused, request, timeVars, feedVars, twap_trigger,
                 ioVars, ws_handle, sync, evaluators>>

\* btc_calculator.get_latest_twap() and the trade-count check.
Eval_read_twap(e) ==
  /\ evaluators.pc[e] = "interval_passed"
  /\ LET btc_twap == get_latest_twap(calculator["BTCUSDT"])
         enough == /\ IsSome(btc_twap)
                   /\ Unwrap(btc_twap).num_trades >= twap_trigger.min_trades_for_update
     IN /\ evaluators' = [evaluators EXCEPT
                            !.pc[e] = IF enough THEN "emitting" ELSE "idle",
                            !.btc[e] = IF enough THEN btc_twap ELSE None]
        /\ request' = IF enough THEN request ELSE None
  /\ UNCHANGED <<binary, now, paused, gate_hist, timeVars, feedVars, twap_trigger,
                 ioVars, ws_handle, sync>>

\* *last_update.write() = now; *last_btc_price.write() = Some(btc.price);
\* Ok(Some(request)).  `now` is the instant read before the interval check.
Eval_emit(e) ==
  /\ evaluators.pc[e] = "emitting"
  /\ LET btc == Unwrap(evaluators.btc[e])
     IN /\ twap_trigger' = [twap_trigger EXCEPT
                              !.last_update = evaluators.at[e],
                              !.last_btc_price = Some(btc.price)]
        /\ request' = Some([type |-> "twap_update", price |-> btc.price,
                            trades |-> btc.num_trades, volume |-> btc.volume])
  /\ evaluators' = [evaluators EXCEPT
                      !.pc[e] = "idle",
                      !.btc[e] = None,
                      !.signals = Append(@, evaluators.at[e])]
  /\ UNCHANGED <<binary, now, paused, gate_hist, timeVars, feedVars, ioVars,
                 ws_handle, sync>>

\* ------------------------------------------------------------ the RwLocks
\* Every parking_lot::RwLock of the two binaries, and every call that takes
\* one, reduced to the sequence of acquisitions and releases it performs.
\* A guard bound with `let` lives to the end of its block (or to its drop);
\* a temporary guard lives to the end of its statement.

Tasks == {"ws_task", "drain", "trigger", "worker"}

BufferLock == [s \in Symbols |-> IF s = "BTCUSDT" THEN "btc_trades" ELSE "eth_trades"]
WindowLock == [s \in Symbols |-> IF s = "BTCUSDT" THEN "btc_calculator.trades"
                                                  ELSE "eth_calculator.trades"]
ResultLock == [s \in Symbols |-> IF s = "BTCUSDT" THEN "btc_calculator.last_twap"
                                                  ELSE "eth_calculator.last_twap"]

BufferLocks == {BufferLock[s] : s \in Symbols}
CalculatorLocks == {WindowLock[s] : s \in Symbols} \cup {ResultLock[s] : s \in Symbols}

Locks == BufferLocks \cup CalculatorLocks \cup {"last_update", "last_btc_price", "timer", "stats"}

Acq(l, mode) == <<"acquire", l, mode>>
Rel(l) == <<"release", l>>
\* One guard taken and dropped with nothing else locked in between.
Region(l, mode) == <<Acq(l, mode), Rel(l)>>

TradeBuffer_add_trade_locks(s) == Region(BufferLock[s], "write")
get_trades_locks(s) == Region(BufferLock[s], "read")
clear_symbol_locks(s) == Region(BufferLock[s], "write")

remove_old_trades_locks(s) == Region(WindowLock[s], "write")
calculate_twap_locks(s) == Region(WindowLock[s], "read")
\* push under trades.write(), drop(trades), remove_old_trades,
\* calculate_twap, then last_twap.write() when the result is Some.
add_trades_batch_locks(s, is_some) ==
  Region(WindowLock[s], "write") \o remove_old_trades_locks(s) \o calculate_twap_locks(s)
    \o (IF is_some THEN Region(ResultLock[s], "write") ELSE <<>>)
get_latest_twap_locks(s) == Region(ResultLock[s], "read")
get_market_quality_locks(s) == Region(WindowLock[s], "read")

\* A variant of the drain half that keeps the buffer guard while it
\* aggregates.
DrainSymbol_locks_GuardKept(s, empty, is_some) ==
  <<Acq(BufferLock[s], "read")>>
    \o (IF empty THEN <<>> ELSE add_trades_batch_locks(s, is_some))
    \o <<Rel(BufferLock[s])>>
    \o (IF empty THEN <<>> ELSE clear_symbol_locks(s))

\* One half of a drain iteration: get_*_trades, and when the Vec is not
\* empty add_trades_batch and clear_*.
DrainSymbol_locks(s, empty, is_some) ==
  get_trades_locks(s)
    \o (IF empty THEN <<>> ELSE add_trades_batch_locks(s, is_some) \o clear_symbol_locks(s))

\* BinanceTwapTrigger::should_trigger: last_update.read(); past the interval
\* check both get_latest_twap; on emission last_update.write(),
\* last_btc_price.write() and get_market_quality.
BinanceTwapTrigger_should_trigger_locks(stage) ==
  Region("last_update", "read")
    \o (IF stage = "interval" THEN <<>>
        ELSE get_latest_twap_locks("BTCUSDT") \o get_latest_twap_locks("ETHUSDT"))
    \o (IF stage = "emit"
        THEN Region("last_update", "write") \o Region("last_btc_price", "write")
               \o get_market_quality_locks("BTCUSDT")
        ELSE <<>>)

print_stats_locks == Region("stats", "read")

\* TimeOracleTrigger::should_trigger: the timer guard is held to the end of
\* the function, the stats guard lives in an inner block.
TimeOracleTrigger_should_trigger_locks(fired) ==
  <<Acq("timer", "write")>> \o (IF fired THEN Region("stats", "write") ELSE <<>>)
    \o <<Rel("timer")>>

\* A variant of on_complete that calls print_stats with the guard alive.
on_complete_locks_NoDrop(success) ==
  <<Acq("stats", "write")>> \o print_stats_locks \o <<Rel("stats")>>

\* TimeOracleTrigger::on_complete: stats.write(), dropped before print_stats.
on_complete_locks(success) == Region("stats", "write") \o print_stats_locks

\* The calls each task of each binary can make.
Programs(bin, t) ==
  IF bin = "binance-oracle"
  THEN CASE t = "ws_task" -> {TradeBuffer_add_trade_locks(s) : s \in Symbols}
         [] t = "drain"   -> {DrainSymbol_locks(s, e, r) : s \in Symbols, e \in BOOLEAN, r \in BOOLEAN}
         [] t = "trigger" -> {BinanceTwapTrigger_should_trigger_locks(stage) :
                                 stage \in {"interval", "twap", "emit"}}
         [] OTHER         -> {}
  ELSE CASE t = "trigger" -> {TimeOracleTrigger_should_trigger_locks(f) : f \in BOOLEAN}
         [] t = "worker"  -> {on_complete_locks(ok) : ok \in BOOLEAN}
         [] OTHER         -> {}

HeldBy(t) == {l \in Locks : \E mode \in {"read", "write"} : <<t, mode>> \in sync.held[l]}
Running(t) == sync.prog[t] # <<>>
NextInstr(t) == Head(sync.prog[t])
\* A write lock needs the lock free; a read lock needs it free of writers.
Grantable(l, mode) ==
  IF mode = "write" THEN sync.held[l] = {}
  ELSE \A h \in sync.held[l] : h[2] = "read"

\* A task enters one of its calls.
LockCall(t) ==
  /\ ~Running(t)
  /\ \E p \in Programs(binary, t) :
        /\ p # <<>>
        /\ sync' = [sync EXCEPT !.prog[t] = p]
  /\ UNCHANGED <<binary, now, gateVars, timeVars, feedVars, twap_trigger, ioVars,
                 ws_handle, evaluators>>

\* lock.read() / lock.write(): the task parks until the lock is grantable.
LockAcquire(t) ==
  /\ Running(t)
  /\ NextInstr(t)[1] = "acquire"
  /\ Grantable(NextInstr(t)[2], NextInstr(t)[3])
  /\ sync' = [sync EXCEPT !.prog[t] = Tail(@),
                          !.held[NextInstr(t)[2]] = @ \cup {<<t, NextInstr(t)[3]>>}]
  /\ UNCHANGED <<binary, now, gateVars, timeVars, feedVars, twap_trigger, ioVars,
                 ws_handle, evaluators>>

\* The guard is dropped.
LockRelease(t) ==
  /\ Running(t)
  /\ NextInstr(t)[1] = "release"
  /\ sync' = [sync EXCEPT !.prog[t] = Tail(@),
                          !.held[NextInstr(t)[2]] = {h \in @ : h[1] # t}]
  /\ UNCHANGED <<binary, now, gateVars, timeVars, feedVars, twap_trigger, ioVars,
                 ws_handle, evaluators>>

\* ---------------------------------------------------------------- init

InitCommon ==
  /\ now = 0
  /\ paused = FALSE
  /\ request = None
  /\ gate_hist = [resumed_at |-> 0, pause_start |-> 0, pause_len |-> 0,
                  suppressed |-> FALSE, fired_since_resume |-> FALSE,
                  completed |-> 0]
  /\ timer = PreciseTimer_new(Interval)
  /\ stats = OracleStats_default
  /\ ticks = <<>>
  /\ trade_buffer = [s \in Symbols |-> <<>>]
  /\ calculator = [s \in Symbols |-> TwapCalculator_new(WindowSize)]
  /\ drain = [pc |-> "tick", trades |-> <<>>]
  /\ twap_trigger = BinanceTwapTrigger_new(0, UpdateInterval)
  /\ next_id = 1
  /\ feed_hist = [appended |-> {}, cap_evicted |-> {},
                  inserted |-> [i \in 1..MaxTrades |-> 0],
                  log |-> [s \in Symbols |-> <<>>],
                  tick_at |-> 0]
  /\ calc_hist = [op |-> "none", pushed |-> <<>>, cutoff |-> 0, ret |-> None]
  /\ conn = BinanceWebSocketClient_new
  /\ writers = [pc     |-> [t \in Threads \cup {Clearer} |-> "idle"],
                result |-> [t \in Threads |-> None],
                seen   |-> {<<>>}]
  /\ reader = [twap |-> None, quality |-> None, panicked |-> FALSE, window |-> <<>>]
  /\ ws_handle = "running"
  /\ sync = [prog |-> [t \in Tasks |-> <<>>],
             held |-> [l \in Locks |-> {}]]
  /\ evaluators = [pc      |-> [e \in Evaluators |-> "idle"],
                   at      |-> [e \in Evaluators |-> 0],
                   btc     |-> [e \in Evaluators |-> None],
                   signals |-> <<>>]

Init == binary \in {"time-oracle", "binance-oracle"} /\ InitCommon

InitTimer == binary = "time-oracle" /\ InitCommon

InitFeed == binary = "binance-oracle" /\ InitCommon

NextTimer ==
  \/ Tick
  \/ Pause
  \/ Resume
  \/ TimeOracle_should_trigger

NextFeed ==
  \/ Tick
  \/ Ingest
  \/ DrainTick
  \/ DrainGet
  \/ DrainBatch
  \/ DrainClear

NextIngest ==
  \/ Tick
  \/ Connect
  \/ FrameRecvTrade
  \/ RecvSkipped
  \/ RecvPing
  \/ SendPong
  \/ PingTimer
  \/ RecvEnd
  \/ Reconnect

NextAtomic ==
  \/ Tick
  \/ Writer_push
  \/ Writer_remove_old_trades
  \/ Writer_calculate_twap
  \/ Writer_store
  \/ Clear_trades
  \/ Clear_last_twap
  \/ Reader_get_latest_twap

NextQuality ==
  \/ Tick
  \/ QualityAddBatch
  \/ CalcClear
  \/ Reader_get_market_quality

NextWindow ==
  \/ Tick
  \/ WindowAddTrade
  \/ WindowAddBatch
  \/ CalcClear

NextCalc ==
  \/ Tick
  \/ CalcAddTrade
  \/ CalcAddBatch
  \/ CalcClear

Next ==
  \/ Tick
  \/ Pause
  \/ Resume
  \/ TimeOracle_should_trigger
  \/ Twap_should_trigger
  \/ FeedBatch

\* A run of the time oracle.
SpecTimer == InitTimer /\ [][NextTimer]_vars

\* A run of the binance oracle's ingestion and drain tasks.
SpecFeed == InitFeed /\ [][NextFeed]_vars

\* A run of the feed ingester: connection attempts, sessions and reconnects.
SpecIngest == InitFeed /\ [][NextIngest]_vars

\* The same with the scheduling of the runtime: the clock advances and a
\* sleep that is over returns.
SpecIngestLive == SpecIngest /\ WF_vars(Tick) /\ WF_vars(Reconnect)

\* Threads calling add_trade, add_trades_batch, clear and get_latest_twap on
\* one TwapCalculator, interleaved at the granularity of its lock regions.
SpecAtomic == InitFeed /\ [][NextAtomic]_vars

\* Trades of both sides inserted into one TwapCalculator and its market
\* quality read.
SpecQuality == InitFeed /\ [][NextQuality]_vars

\* Calls on one TwapCalculator with trades that may be older than the window.
SpecWindow == InitFeed /\ [][NextWindow]_vars

\* Calls on one TwapCalculator: add_trade, add_trades_batch and clear with
\* trades in any timestamp order.
SpecCalc == InitFeed /\ [][NextCalc]_vars

\* A run of either oracle's trigger evaluation with its pause gate; the BTC
\* calculator is handed the batches of the drain loop.
Spec == Init /\ [][Next]_vars

\* Calls on the BTC calculator with quantities of either sign.
NextVolume ==
  \/ Tick
  \/ VolumeAddTrade
  \/ VolumeAddBatch
  \/ CalcClear

SpecVolume == InitFeed /\ [][NextVolume]_vars

\* Trades whose exchange timestamps arrive in either order, and a consumer
\* of the market quality.
NextFrequency ==
  \/ Tick
  \/ FrequencyAddTrade
  \/ FrequencyAddBatch
  \/ CalcClear
  \/ Reader_get_market_quality

SpecFrequency == InitFeed /\ [][NextFrequency]_vars

\* The WebSocket task next to the drain loop.
NextFrame ==
  \/ Tick
  \/ Connect
  \/ FrameRecvTrade
  \/ FrameRecvOther
  \/ DrainTick
  \/ DrainGet
  \/ DrainBatch
  \/ DrainClear

SpecFrame == InitFeed /\ [][NextFrame]_vars

\* Either trigger with the orchestrator reporting each emitted request once.
NextComplete ==
  \/ Tick
  \/ TimeOracle_should_trigger
  \/ TimeOracle_on_complete
  \/ FeedBatch
  \/ \E e \in Evaluators :
       \/ Eval_check_interval(e)
       \/ Eval_read_twap(e)
       \/ Eval_emit(e)
  \/ Twap_on_complete

SpecComplete == Init /\ [][NextComplete]_vars

\* The connection with its keep-alive tasks, without trade messages.
NextPing ==
  \/ Tick
  \/ Connect
  \/ RecvSkipped
  \/ RecvPing
  \/ SendPong
  \/ PingTimer
  \/ RecvEnd
  \/ Reconnect
  \/ PingTaskExit

\* The runtime keeps polling a spawned task: a keep-alive task that can
\* leave its loop does.
SpecPing == InitFeed /\ [][NextPing]_vars /\ WF_vars(PingTaskExit)

\* The feed, the drain loop and the shutdown sequence of main.
NextShutdown ==
  \/ Tick
  \/ Connect
  \/ RecvTrade
  \/ RecvEnd
  \/ Reconnect
  \/ DrainTick
  \/ DrainGet
  \/ DrainBatch
  \/ DrainClear
  \/ Shutdown
  \/ ProcessExit

SpecShutdown == InitFeed /\ [][NextShutdown]_vars

\* A feed with unparseable price and quantity strings, and the drain loop.
NextParse ==
  \/ Tick
  \/ ParseIngest
  \/ DrainTick
  \/ DrainGet
  \/ DrainBatch
  \/ DrainClear

SpecParse == InitFeed /\ [][NextParse]_vars

\* The tasks of either binary, reduced to the locks they take.
NextLocks ==
  \E t \in Tasks :
    \/ LockCall(t)
    \/ LockAcquire(t)
    \/ LockRelease(t)

SpecLocks == Init /\ [][NextLocks]_vars

\* Two tasks evaluating the TWAP trigger while the Window is fed.
NextTrigger ==
  \/ Tick
  \/ FeedBatch
  \/ \E e \in Evaluators :
       \/ Eval_check_interval(e)
       \/ Eval_read_twap(e)
       \/ Eval_emit(e)

SpecTrigger == InitFeed /\ [][NextTrigger]_vars

\* ------------------------------------------------ claims on the scheduler

\* A step in which TimeOracleTrigger::should_trigger polled the timer and it fired.
TimerFire ==
  /\ TimeOracle_should_trigger
  /\ ~paused
  /\ IsSome(should_tick(timer, now).ret)

\* C3: a poll that fires after more than one full interval was missed leaves
\* next_tick >= the elapsed time of that poll, so that polling again at the
\* same elapsed time does not fire a second time.
C3_CatchUpFiresOnce ==
  [][(TimerFire /\ TickBranch(timer, now) = "catchup")
       => /\ timer'.next_tick >= now
          /\ ~IsSome(should_tick(timer', now).ret)]_vars

\* C4: in the catch-up branch the tick counter after the poll equals
\* floor(elapsed / interval) + 1 and next_tick equals counter * interval.
C4_CatchUpCounter ==
  [][(TimerFire /\ TickBranch(timer, now) = "catchup")
       => /\ timer'.tick_count = (now \div timer.interval_ms) + 1
          /\ timer'.next_tick = timer'.tick_count * timer.interval_ms]_vars

\* C5: in the normal branch the tick counter increases by exactly one and
\* next_tick increases by exactly one interval.
C5_NormalAdvance ==
  [][(TimerFire /\ TickBranch(timer, now) = "normal")
       => /\ timer'.tick_count = timer.tick_count + 1
          /\ timer'.next_tick = timer.next_tick + timer.interval_ms]_vars

\* C6: the number of fires up to elapsed time e is at most floor(e / interval)
\* and no two fires return the same target_time.
C6_NoBurst ==
  /\ Len(ticks) <= now \div timer.interval_ms
  /\ \A i, j \in 1..Len(ticks) : i # j => ticks[i][1] # ticks[j][1]

\* The first fire after the pause gate cleared, the pause having lasted at
\* least two intervals with at least one suppressed evaluation in it.
FirstFireAfterLongPause ==
  /\ TimerFire
  /\ ~gate_hist.fired_since_resume
  /\ gate_hist.suppressed
  /\ gate_hist.pause_len >= 2 * timer.interval_ms

\* C8 (as stated): after a pause of k > 1 intervals the first fire does not
\* take the catch-up branch and does not advance tick_count by the k paused
\* intervals.
C8_PauseNotCounted ==
  [][FirstFireAfterLongPause
       => /\ TickBranch(timer, now) # "catchup"
          /\ timer'.tick_count - timer.tick_count
               < gate_hist.pause_len \div timer.interval_ms]_vars

\* C8 (amended): a suppressed evaluation leaves the timer untouched, but the
\* paused time is counted: the first fire after a pause of k > 1 intervals
\* takes the catch-up branch whenever elapsed > next_tick + interval and then
\* advances tick_count by at least k (and at least 2); otherwise by one.
C8_PauseCounted ==
  [][/\ (TimeOracle_should_trigger /\ paused) => timer' = timer
     /\ FirstFireAfterLongPause
          => IF now > timer.next_tick + timer.interval_ms
             THEN /\ timer'.tick_count - timer.tick_count >= 2
                  /\ timer'.tick_count - timer.tick_count
                       >= gate_hist.pause_len \div timer.interval_ms
             ELSE timer'.tick_count = timer.tick_count + 1]_vars

C8_Witness ==
  /\ gate_hist.suppressed
  /\ gate_hist.pause_len >= 2 * timer.interval_ms
  /\ ~paused
  /\ \E i \in 1..Len(ticks) :
       /\ ticks[i][2] >= gate_hist.resumed_at
       /\ \A j \in 1..(i - 1) : ticks[j][2] < gate_hist.resumed_at
       /\ ticks[i][2] > ticks[i][1] + timer.interval_ms
       /\ timer.tick_count >= 2

\* ------------------------------------------- claims on the pause gate

Eval == TimeOracle_should_trigger \/ Twap_should_trigger

TriggerInterval ==
  IF binary = "time-oracle" THEN timer.interval_ms ELSE twap_trigger.update_interval

\* A TwapResult the TWAP trigger accepts is published (the time trigger needs none).
Qualifying ==
  \/ binary = "time-oracle"
  \/ /\ IsSome(calculator["BTCUSDT"].last_twap)
     /\ Unwrap(calculator["BTCUSDT"].last_twap).num_trades
          >= twap_trigger.min_trades_for_update

InBuffer(id) == \E s \in Symbols : id \in IdsOf(trade_buffer[s])

\* C1: every appended trade that the size cap did not evict is still in the
\* buffer or has been inserted into its symbol's Window (so that none is lost
\* between the drain loop's read and its clear).
C1_NoTradeLost ==
  \A id \in feed_hist.appended \ feed_hist.cap_evicted :
    InBuffer(id) \/ feed_hist.inserted[id] >= 1

NonDecreasing(trades) ==
  \A i \in 1..(Len(trades) - 1) : trades[i].timestamp <= trades[i + 1].timestamp

Inserting == calc_hist.op \in {"add_trade", "add_trades_batch"}

Retained == calculator["BTCUSDT"].trades

\* C2 (as stated): after add_trade / add_trades_batch ran its eviction, every
\* retained trade has timestamp >= cutoff, whatever the order of the inserted
\* timestamps.
C2_AllRetainedFresh ==
  Inserting => \A i \in 1..Len(Retained) : Retained[i].timestamp >= calc_hist.cutoff

\* C2 (amended): when the Window's trades after the insertion are in
\* non-decreasing timestamp order, every trade retained after the eviction has
\* timestamp >= cutoff.
C2_FreshWhenInOrder ==
  (Inserting /\ NonDecreasing(calc_hist.pushed))
    => \A i \in 1..Len(Retained) : Retained[i].timestamp >= calc_hist.cutoff

C2_Witness ==
  /\ Inserting
  /\ NonDecreasing(calc_hist.pushed)
  /\ Len(calc_hist.pushed) >= Len(Retained) + 2
  /\ Retained # <<>>

\* C9: each buffer holds at most max_buffer_size trades, and they are exactly
\* the most recently appended min(k, max_buffer_size) trades, in append order,
\* of the k appended since the buffer was last cleared.
C9_BufferBoundedFifo ==
  \A s \in Symbols :
    LET log == feed_hist.log[s]
        buf == trade_buffer[s]
        k   == Len(log)
        n   == IF k < MaxBufferSize THEN k ELSE MaxBufferSize
    IN /\ Len(buf) <= MaxBufferSize
       /\ Len(buf) = n
       /\ \A i \in 1..n : buf[i].id = log[k - n + i]

C9_Witness ==
  \E s \in Symbols :
    /\ Len(feed_hist.log[s]) = MaxBufferSize + 1
    /\ drain.trades = trade_buffer[s]
    /\ Len(drain.trades) = MaxBufferSize

\* C10: each trade is inserted into a Window at most once, and no Window
\* holds the same trade twice.
C10_AtMostOnce ==
  /\ \A id \in DOMAIN feed_hist.inserted : feed_hist.inserted[id] <= 1
  /\ \A s \in Symbols :
       \A i, j \in 1..Len(calculator[s].trades) :
         i # j => calculator[s].trades[i].id # calculator[s].trades[j].id

C10_Witness ==
  /\ drain.pc \in {"btc_batch", "eth_batch"}
  /\ drain.trades # <<>>
  /\ \E id \in IdsOf(calculator[DrainSymbol[drain.pc]].trades) :
       /\ feed_hist.inserted[id] = 1
       /\ id \notin IdsOf(drain.trades)

\* ------------------------------------------- claims on the feed ingester

\* Text messages that fail to decode: invalid JSON, and a data field that is
\* not a trade envelope.
Malformed == {"invalid_json", "not_trade_envelope"}

\* C11: processing a text message that fails to decode leaves the connection
\* open (the same session stays connected, so the next message is read on it)
\* and leaves the Trade Buffer unchanged.
C11_MalformedSkipped ==
  [][(\E kind \in Malformed : RecvText(kind))
       => /\ conn'.pc = "connected"
          /\ conn'.session = conn.session
          /\ trade_buffer' = trade_buffer]_vars

\* C12: run() never returns; whatever way a connection attempt or a session
\* ends, run() goes to sleep for reconnect_delay; it leaves the sleep only
\* for a new connection attempt, not before the delay is over; and every
\* sleep is followed by a new connection attempt.
C12_ReconnectsForever ==
  /\ [](conn.pc \in {"connecting", "connected", "backoff"})
  /\ [][(conn.pc \in {"connecting", "connected"} /\ conn'.pc # conn.pc
           /\ conn'.pc # "connected")
          => (conn'.pc = "backoff" /\ conn'.retry_at = now + ReconnectDelay)]_vars
  /\ [][(conn.pc = "backoff" /\ conn'.pc # "backoff")
          => /\ conn'.pc = "connecting"
             /\ conn'.session = conn.session + 1
             /\ now >= conn.retry_at]_vars
  /\ (conn.pc = "backoff") ~> (conn.pc = "connecting")

C12_Witness ==
  /\ conn.pc = "connecting"
  /\ conn.session = MaxSessions
  /\ now >= conn.retry_at
  /\ conn.retry_at >= ReconnectDelay

\* ---------------------------------------------- claims on the aggregator

RECURSIVE SumOf(_, _)
SumOf(f, S) ==
  IF S = {} THEN 0
  ELSE LET i == CHOOSE j \in S : TRUE IN f[i] + SumOf(f, S \ {i})

\* Sum of price * quantity and sum of quantity over a Window.
WeightedSum(w) == SumOf([i \in 1..Len(w) |-> w[i].price * w[i].quantity], 1..Len(w))
QuantitySum(w) == SumOf([i \in 1..Len(w) |-> w[i].quantity], 1..Len(w))

PricesOf(w) == {w[i].price : i \in 1..Len(w)}
LowPrice(w) == CHOOSE p \in PricesOf(w) : \A q \in PricesOf(w) : p <= q
HighPrice(w) == CHOOSE p \in PricesOf(w) : \A q \in PricesOf(w) : p >= q

\* The quotient kept as <<numerator, denominator>> equals n / d.
RatioIs(r, n, d) == r[2] # 0 /\ d # 0 /\ r[1] * d = n * r[2]

\* C13: when the Window is empty after the eviction of add_trade /
\* add_trades_batch, the call returns None, not a TwapResult.
C13_EmptyWindowAbsent ==
  (Inserting /\ Retained = <<>>) => calc_hist.ret = None

C13_Witness ==
  /\ calc_hist.op = "add_trade"
  /\ Retained = <<>>
  /\ Len(calc_hist.pushed) >= 2
  /\ calc_hist.ret = None

\* C14: for a non-empty Window of positive total quantity the result returned
\* has price = sum(price * quantity) / sum(quantity), volume = sum(quantity),
\* num_trades = the number of trades and spread = (max - min) / min * 100,
\* all over the trades retained after eviction; trades (100,1),(200,1) give
\* price 150, volume 2 and spread 100.
C14_VolumeWeighted ==
  (Inserting /\ Retained # <<>> /\ QuantitySum(Retained) > 0)
    => /\ IsSome(calc_hist.ret)
       /\ LET r == Unwrap(calc_hist.ret)
          IN /\ RatioIs(r.price, WeightedSum(Retained), QuantitySum(Retained))
             /\ r.volume = QuantitySum(Retained)
             /\ r.num_trades = Len(Retained)
             /\ IsSome(r.spread)
             /\ RatioIs(Unwrap(r.spread),
                        (HighPrice(Retained) - LowPrice(Retained)) * 100,
                        LowPrice(Retained))
             /\ ([i \in 1..Len(Retained) |-> <<Retained[i].price, Retained[i].quantity>>]
                   = <<(<<100, 1>>), (<<200, 1>>)>>)
                  => /\ RatioIs(r.price, 150, 1)
                     /\ r.volume = 2
                     /\ RatioIs(Unwrap(r.spread), 100, 1)

C14_Witness ==
  /\ Inserting
  /\ Len(calc_hist.pushed) > Len(Retained)
  /\ [i \in 1..Len(Retained) |-> <<Retained[i].price, Retained[i].quantity>>]
       = <<(<<100, 1>>), (<<200, 1>>)>>
  /\ IsSome(calc_hist.ret)
  /\ RatioIs(Unwrap(calc_hist.ret).price, 150, 1)

\* The published TwapResult of a calculator reflects its Window as of instant t:
\* absent when no trade of the Window is within the window, otherwise the
\* aggregate of exactly the trades that are.
Reflects(calc, t) ==
  LET live   == remove_old_trades(calc.trades, Cutoff(t, calc.window_size))
      latest == get_latest_twap(calc)
  IN IF live = <<>> \/ QuantitySum(live) = 0
     THEN latest = None
     ELSE /\ IsSome(latest)
          /\ Unwrap(latest).num_trades = Len(live)
          /\ Unwrap(latest).volume = QuantitySum(live)
          /\ RatioIs(Unwrap(latest).price, WeightedSum(live), QuantitySum(live))

\* C15: when an iteration of the drain loop completes, get_latest_twap of
\* each symbol reflects the Window as of the tick that started the iteration.
C15_FreshAfterTick ==
  [][(drain.pc # "tick" /\ drain'.pc = "tick")
       => \A s \in Symbols : Reflects(calculator'[s], feed_hist.tick_at)]_vars

\* r was computed, all of it, from one value the Window had.
FromOneWindow(r) ==
  \E w \in writers.seen :
    /\ w # <<>>
    /\ r.num_trades = Len(w)
    /\ r.volume = QuantitySum(w)
    /\ RatioIs(r.price, WeightedSum(w), QuantitySum(w))

\* C16: every value get_latest_twap returns is None or a whole TwapResult
\* whose price, volume and num_trades all come from one and the same value of
\* the Window, however the calls of add_trade, add_trades_batch and clear
\* interleave.
C16_WholeResult ==
  IsSome(reader.twap)
    => /\ DOMAIN Unwrap(reader.twap)
            = {"price", "volume", "num_trades", "timestamp", "spread"}
       /\ FromOneWindow(Unwrap(reader.twap))

C16_Witness ==
  /\ IsSome(reader.twap)
  /\ \E t \in Threads : writers.pc[t] \in {"calculate_twap", "store"}
  /\ Unwrap(reader.twap).num_trades # Len(BtcCalc.trades)
  /\ reader.twap # BtcCalc.last_twap

\* C17 (as stated): the Window goes from empty to non-empty only in an
\* insertion, and from non-empty to empty only in clear().
C17_EmptiedOnlyByClear ==
  [][/\ (Retained = <<>> /\ Retained' # <<>>) => Inserting'
     /\ (Retained # <<>> /\ Retained' = <<>>) => calc_hist'.op = "clear"]_vars

\* C17 (amended): the Window goes from empty to non-empty only in an
\* add_trade / add_trades_batch; it goes from non-empty to empty in clear(),
\* or in an add_trade / add_trades_batch after whose insertion every trade of
\* the Window is older than the cutoff; an insertion after which some trade
\* of the Window is not older than the cutoff leaves it non-empty.
C17_EmptiedByClearOrEviction ==
  [][/\ (Retained = <<>> /\ Retained' # <<>>) => Inserting'
     /\ (Retained # <<>> /\ Retained' = <<>>)
          => \/ calc_hist'.op = "clear"
             \/ /\ Inserting'
                /\ \A i \in 1..Len(calc_hist'.pushed) :
                     calc_hist'.pushed[i].timestamp < calc_hist'.cutoff
     /\ (/\ calc_hist' # calc_hist
         /\ Inserting'
         /\ \E i \in 1..Len(calc_hist'.pushed) :
              calc_hist'.pushed[i].timestamp >= calc_hist'.cutoff)
          => Retained' # <<>>]_vars

C17_Witness ==
  /\ calc_hist.op = "add_trades_batch"
  /\ Len(calc_hist.pushed) = 3
  /\ Retained = <<>>
  /\ \A i \in 1..3 : calc_hist.pushed[i].timestamp < calc_hist.cutoff

\* ------------------------------------------------ claims on the trigger

C19_UnknownSymbolIgnored ==
  [][/\ (next_id' = next_id + 1 /\ feed_hist'.appended = feed_hist.appended)
          => trade_buffer' = trade_buffer
     /\ \A symbol \in FeedSymbols \ Symbols, ts \in FeedTimestamps(now) :
          TradeBuffer_add_trade(trade_buffer, symbol,
                                CalcTrade(next_id, 1, 1, ts, FALSE)) = trade_buffer]_vars

C19_Witness ==
  /\ next_id - 1 > Cardinality(feed_hist.appended)
  /\ feed_hist.appended # {}
  /\ \E s \in Symbols : trade_buffer[s] # <<>>

\* ------------------------------------------ claims on the market quality

AllMaker(w) == \A i \in 1..Len(w) : w[i].is_buyer_maker
AllTaker(w) == \A i \in 1..Len(w) : ~w[i].is_buyer_maker

C28_FireReturnsTargetAndActual ==
  [][TimerFire
       => /\ ticks' = Append(ticks, <<timer.next_tick, now>>)
          /\ now - timer.next_tick >= 0]_vars

\* A fire with a positive drift has been recorded.
C28_Witness ==
  \E i \in 1..Len(ticks) : ticks[i][2] > ticks[i][1]

\* A poll of the running trigger before next_tick is due.
QuietPoll ==
  /\ TimeOracle_should_trigger
  /\ ~paused
  /\ now < timer.next_tick

\* C29: a poll whose elapsed time is below next_tick returns no tick and
\* leaves the timer unchanged; tick_count and next_tick never decrease; and
\* next_tick is always a positive multiple of the interval.
C29_QuietPollAndMonotone ==
  /\ timer.next_tick > 0
  /\ timer.next_tick % timer.interval_ms = 0
  /\ [][/\ QuietPoll => (timer' = timer /\ request' = None /\ ticks' = ticks)
        /\ timer'.tick_count >= timer.tick_count
        /\ timer'.next_tick >= timer.next_tick
        /\ timer'.next_tick > 0
        /\ timer'.next_tick % timer'.interval_ms = 0]_vars

\* The trigger has fired more than once, never met the pause gate, and its
\* last poll came before the next tick was due.
C29_Witness ==
  /\ Len(ticks) >= 2
  /\ ~gate_hist.suppressed
  /\ ~paused
  /\ request = None
  /\ now < timer.next_tick

\* ------------------------------------------------ claims on the eviction

\* Number of trades the eviction of the last insertion removed.
Evicted == Len(calc_hist.pushed) - Len(Retained)

\* C26: eviction removes trades only from the front of the Window and only
\* stale ones: what is retained is the Window after the push less a prefix, in
\* the same order; every removed trade has timestamp < cutoff (a trade whose
\* timestamp equals the cutoff is retained); and when the pushed timestamps
\* are non-decreasing no trade with timestamp < cutoff is left.
C26_EvictsOnlyStaleFront ==
  Inserting
    => /\ Evicted >= 0
       /\ Retained = SubSeq(calc_hist.pushed, Evicted + 1, Len(calc_hist.pushed))
       /\ \A i \in 1..Evicted : calc_hist.pushed[i].timestamp < calc_hist.cutoff
       /\ NonDecreasing(calc_hist.pushed)
            => \A i \in 1..Len(Retained) : Retained[i].timestamp >= calc_hist.cutoff

\* An insertion evicted a stale trade and stopped at a trade whose timestamp
\* equals the cutoff.
C26_Witness ==
  /\ Inserting
  /\ Evicted >= 1
  /\ Retained # <<>>
  /\ Retained[1].timestamp = calc_hist.cutoff

\* ------------------------------------------ claims on the Window's order

\* C27: the Window holds its trades in arrival order (the order of the
\* sequence numbers of their messages) across any sequence of drain cycles;
\* nothing re-sorts it, by timestamp or otherwise.
C27_WindowInArrivalOrder ==
  \A s \in Symbols :
    \A i \in 1..(Len(calculator[s].trades) - 1) :
      calculator[s].trades[i].id < calculator[s].trades[i + 1].id

\* The drain loop has just inserted a batch behind a trade of an earlier
\* cycle that carries a later timestamp.
C27_Witness ==
  LET w == calculator["BTCUSDT"].trades
      b == IdsOf(trade_buffer["BTCUSDT"])
  IN /\ drain.pc = "btc_clear"
     /\ Len(w) >= 2
     /\ w[1].id \notin b \cup feed_hist.cap_evicted
     /\ w[2].id \in b
     /\ w[1].timestamp > w[2].timestamp

\* --------------------------------------- claims on the message handling

\* C22: a decodable message whose event type is not the tracked trade event
\* is not converted: the Trade Buffer is unchanged by it (and the read loop
\* goes on with the same connection).
C22_OtherEventIgnored ==
  [][RecvText("other_event")
       => /\ trade_buffer' = trade_buffer
          /\ conn'.pc = "connected"
          /\ conn'.session = conn.session]_vars

\* A message of another event type has been handled while trades were
\* waiting in a buffer.
C22_Witness ==
  /\ conn.pc = "connected"
  /\ conn.skipped = "other_event"
  /\ \E s \in Symbols : trade_buffer[s] # <<>>

\* ------------------------------------------ claims on the conversion

\* Every trade held anywhere between the feed and the BTC Window.
TradesInFlight ==
  {trade_buffer["BTCUSDT"][i] : i \in 1..Len(trade_buffer["BTCUSDT"])}
    \cup {drain.trades[i] : i \in 1..Len(drain.trades)}
    \cup {calculator["BTCUSDT"].trades[i] : i \in 1..Len(calculator["BTCUSDT"].trades)}

\* The value a field of the trade must have for the string of its message.
FieldOf(str) == IF str = "1" THEN 1 ELSE 0

\* C23: a trade message whose price or quantity string does not parse is
\* not dropped.  It is appended to the Trade Buffer with that field equal
\* to 0 and with the timestamp and maker flag of the message, and the drain
\* puts it in the Window like any other trade: it is pushed with its batch
\* and stays unless its timestamp is older than the cutoff.
C23_UnparseableFieldIsZero ==
  /\ [](\A tr \in TradesInFlight :
          /\ tr.price = FieldOf(tr.msg.price)
          /\ tr.quantity = FieldOf(tr.msg.quantity)
          /\ tr.timestamp = tr.msg.trade_time
          /\ tr.is_buyer_maker = tr.msg.is_buyer_maker)
  /\ [][/\ next_id' = next_id + 1
            => LET b == trade_buffer'["BTCUSDT"]
               IN b # <<>> /\ b[Len(b)].id = next_id
        /\ (drain.pc = "btc_batch" /\ drain'.pc = "btc_clear")
            => \A i \in 1..Len(drain.trades) :
                 /\ \E j \in 1..Len(calc_hist'.pushed) :
                       calc_hist'.pushed[j] = drain.trades[i]
                 /\ drain.trades[i].timestamp >= calc_hist'.cutoff
                      => \E j \in 1..Len(calculator'["BTCUSDT"].trades) :
                           calculator'["BTCUSDT"].trades[j] = drain.trades[i]]_vars

\* The drain has just put in the Window a trade whose price did not parse
\* and one whose quantity did not parse, and the recomputation counted them.
C23_Witness ==
  LET w == calculator["BTCUSDT"].trades
  IN /\ drain.pc = "btc_clear"
     /\ \E i, j \in 1..Len(w) :
          /\ w[i].msg.price = "abc" /\ w[i].price = 0
          /\ w[j].msg.quantity = "" /\ w[j].quantity = 0
     /\ IsSome(calc_hist.ret)
     /\ Unwrap(calc_hist.ret).num_trades = Len(w)

\* ------------------------------------------------- claims on the locks

\* C24: the drain loop never holds a Trade Buffer lock and a lock of a
\* calculator (Window or published result) at the same time; in particular
\* no buffer lock is held while the TWAP is recomputed.
C24_DrainLocksDisjoint ==
  ~(/\ HeldBy("drain") \cap BufferLocks # {}
    /\ HeldBy("drain") \cap CalculatorLocks # {})

\* The drain recomputes the BTC TWAP under the Window's read lock while the
\* ingester holds the BTC buffer's write lock.
C24_Witness ==
  /\ <<"drain", "read">> \in sync.held[WindowLock["BTCUSDT"]]
  /\ <<"ws_task", "write">> \in sync.held[BufferLock["BTCUSDT"]]

\* The task is parked on an acquisition that cannot be granted.
Blocked(t) ==
  /\ Running(t)
  /\ NextInstr(t)[1] = "acquire"
  /\ ~Grantable(NextInstr(t)[2], NextInstr(t)[3])

\* t is parked on a lock that u holds in a conflicting mode.
WaitsFor(t, u) ==
  /\ Blocked(t)
  /\ \E h \in sync.held[NextInstr(t)[2]] :
        /\ h[1] = u
        /\ NextInstr(t)[3] = "write" \/ h[2] = "write"

\* C25: no interleaving of ingestion, drain, trigger evaluation and
\* on_complete deadlocks: no task asks for a lock it already holds, and no
\* set of tasks wait for one another in a cycle (the nested acquisition
\* timer-then-stats included).
C25_DeadlockFree ==
  /\ \A t \in Tasks :
        (Running(t) /\ NextInstr(t)[1] = "acquire") => NextInstr(t)[2] \notin HeldBy(t)
  /\ ~\E D \in SUBSET Tasks \ {{}} : \A t \in D : \E u \in D : WaitsFor(t, u)

\* should_trigger holds the timer and, nested in it, the stats lock while
\* on_complete is parked on the stats lock.
C25_Witness ==
  /\ <<"trigger", "write">> \in sync.held["timer"]
  /\ <<"trigger", "write">> \in sync.held["stats"]
  /\ Blocked("worker")

\* ------------------------------------------------ claims on the shutdown

\* C21: once the shutdown signal has been handled (the handle of the
\* background task is aborted) no reconnect iteration starts, no drain
\* iteration starts and no trade is appended to the Trade Buffer.
C21_ShutdownStopsIngestion ==
  [][ws_handle # "running"
       => /\ ~(conn.pc = "backoff" /\ conn'.pc = "connecting")
          /\ ~(drain.pc = "tick" /\ drain'.pc # "tick")
          /\ feed_hist'.appended = feed_hist.appended]_vars

\* ------------------------------------ claims on the trigger's interval

\* C30: the TWAP trigger emits at most one signal per update interval.  Any
\* two signals are stamped at least update_interval apart and the first is
\* stamped no earlier than update_interval after the construction of the
\* trigger (instant 0), also when two tasks evaluate should_trigger
\* concurrently.
C30_OneSignalPerInterval ==
  /\ \A i \in 1..Len(evaluators.signals) : evaluators.signals[i] >= UpdateInterval
  /\ \A i, j \in 1..Len(evaluators.signals) :
        i < j => \/ evaluators.signals[j] - evaluators.signals[i] >= UpdateInterval
                 \/ evaluators.signals[i] - evaluators.signals[j] >= UpdateInterval

\* ------------------------------------ claims on the published snapshot

Published == calculator["BTCUSDT"].last_twap

\* C31: a recomputation that yields absent does not replace the published
\* snapshot.  An add_trade / add_trades_batch that returns None leaves
\* get_latest_twap as it was, and a published value becomes absent again only
\* through clear().
C31_SnapshotKeptUntilClear ==
  [][/\ (IsSome(Published) /\ ~IsSome(Published')) => calc_hist'.op = "clear"
     /\ (next_id' # next_id /\ Inserting' /\ ~IsSome(calc_hist'.ret))
          => Published' = Published]_vars

\* An insertion has just returned None while a snapshot is published.
C31_Witness ==
  /\ Inserting
  /\ ~IsSome(calc_hist.ret)
  /\ IsSome(Published)

\* ------------------------------------------------ claims on the volume

AllZeroQuantity(w) == \A i \in 1..Len(w) : w[i].quantity = 0
NoNegativeQuantity(w) == \A i \in 1..Len(w) : w[i].quantity >= 0

C33_FewTradesGiveDefault ==
  /\ [](Len(reader.window) < 2 /\ IsSome(reader.quality)
          => /\ RatioIs(Unwrap(reader.quality).volatility, 0, 1)
             /\ RatioIs(Unwrap(reader.quality).trade_frequency, 0, 1)
             /\ RatioIs(Unwrap(reader.quality).buy_sell_ratio, 0, 1)
             /\ Unwrap(reader.quality).is_healthy = FALSE)
  /\ [][reader'.quality # reader.quality \/ reader'.window # reader.window
          => calculator' = calculator]_vars

C33_Witness ==
  /\ IsSome(reader.quality)
  /\ Len(reader.window) = 1
  /\ reader.window = BtcCalc.trades
  /\ IsSome(BtcCalc.last_twap)

WindowFirst == reader.window[1]
WindowLast == reader.window[Len(reader.window)]

\* C34 (as stated): trade_frequency is count / ((last.timestamp -
\* first.timestamp) / 1000) over the first and the last trade of the Window,
\* 0 when they share a timestamp, and last.timestamp - first.timestamp never
\* underflows for a Window reachable through add_trade / add_trades_batch.
C34_FrequencyWithoutUnderflow ==
  Len(reader.window) >= 2
       => /\ ~reader.panicked
          /\ IsSome(reader.quality)
          /\ WindowLast.timestamp >= WindowFirst.timestamp
          /\ IF WindowLast.timestamp = WindowFirst.timestamp
             THEN RatioIs(Unwrap(reader.quality).trade_frequency, 0, 1)
             ELSE RatioIs(Unwrap(reader.quality).trade_frequency,
                          Len(reader.window) * 1000,
                          WindowLast.timestamp - WindowFirst.timestamp)

\* C34: a Window whose first trade is later than its last, read by
\* get_market_quality.
C34_Underflow ==
  /\ Len(reader.window) >= 2
  /\ WindowLast.timestamp < WindowFirst.timestamp
  /\ reader.panicked \/ IsSome(reader.quality)

\* C34: over the Windows whose last trade is not earlier than the first,
\* trade_frequency is count / ((last - first) / 1000), 0 on equal timestamps.
C34_FrequencyWhenOrdered ==
  (Len(reader.window) >= 2 /\ WindowLast.timestamp >= WindowFirst.timestamp)
    => /\ ~reader.panicked
       /\ IsSome(reader.quality)
       /\ IF WindowLast.timestamp = WindowFirst.timestamp
          THEN RatioIs(Unwrap(reader.quality).trade_frequency, 0, 1)
          ELSE RatioIs(Unwrap(reader.quality).trade_frequency,
                       Len(reader.window) * 1000,
                       WindowLast.timestamp - WindowFirst.timestamp)

C34_OrderedWitness ==
  /\ Len(reader.window) >= 2
  /\ WindowLast.timestamp > WindowFirst.timestamp
  /\ IsSome(reader.quality)

\* A step of the WebSocket task: a message is taken or the connection moves.
InboundStep == next_id' # next_id \/ conn' # conn

\* C35: the parsing path mutates only the Trade Buffer: processing an inbound
\* message leaves the Window, the published TwapResult and the trigger state
\* unchanged, and an append to one symbol's buffer leaves the other symbol's
\* buffer unchanged.
C35_ParsingMutatesOnlyBuffer ==
  [][InboundStep
       => /\ calculator' = calculator
          /\ twap_trigger' = twap_trigger
          /\ \A s \in Symbols :
               feed_hist'.log[s] # feed_hist.log[s]
                 => \A o \in Symbols \ {s} : trade_buffer'[o] = trade_buffer[o]
          /\ feed_hist'.log = feed_hist.log => trade_buffer' = trade_buffer]_vars

C35_Witness ==
  /\ trade_buffer["BTCUSDT"] # <<>>
  /\ trade_buffer["ETHUSDT"] # <<>>
  /\ trade_buffer["ETHUSDT"][Len(trade_buffer["ETHUSDT"])].id = next_id - 1
  /\ BtcCalc.trades # <<>>
  /\ IsSome(BtcCalc.last_twap)

\* C36: on_complete only touches statistics: it leaves the timer, the
\* trigger's last_update, the Window and the published TwapResult unchanged;
\* in the time trigger it increments exactly one of successful_updates and
\* failed_updates, so that with one on_complete per emitted request
\* successful_updates + failed_updates never exceeds total_triggers.
C36_OnCompleteStatisticsOnly ==
  /\ [](stats.successful_updates + stats.failed_updates <= stats.total_triggers)
  /\ [][gate_hist'.completed # gate_hist.completed
          => /\ timer' = timer
             /\ twap_trigger' = twap_trigger
             /\ calculator' = calculator
             /\ stats'.total_triggers = stats.total_triggers
             /\ IF binary = "time-oracle"
                THEN \/ /\ stats'.successful_updates = stats.successful_updates + 1
                        /\ stats'.failed_updates = stats.failed_updates
                     \/ /\ stats'.successful_updates = stats.successful_updates
                        /\ stats'.failed_updates = stats.failed_updates + 1
                ELSE stats' = stats]_vars

C36_Witness ==
  /\ binary = "time-oracle"
  /\ stats.successful_updates >= 1
  /\ stats.failed_updates >= 1
  /\ stats.successful_updates + stats.failed_updates = stats.total_triggers
  /\ timer.tick_count >= 2

\* The TWAP trigger's on_complete reported an emitted signal.
C36_TwapReported ==
  /\ binary = "binance-oracle"
  /\ gate_hist.completed >= 1
  /\ IsSome(BtcCalc.last_twap)

\* What the trigger's own condition decides when no gate is consulted.
UngatedEmits ==
  IF binary = "time-oracle"
  THEN IsSome(should_tick(timer, now).ret)
  ELSE IsSome(TwapDecision(twap_trigger, get_latest_twap(BtcCalc), now).ret)

LoopEnded(s) == conn.session > s \/ (conn.session = s /\ conn.pc = "backoff")

\* C38: within a connection each Ping is answered with a Pong of the same
\* payload before the next inbound message is processed, and the keep-alive
\* ping task of a connection stops once the processing loop of that
\* connection has ended, by break or by error return.
C38_PongThenNextAndPingTaskStops ==
  /\ [][IsSome(conn.pinged)
          => /\ next_id' = next_id
             /\ trade_buffer' = trade_buffer
             /\ conn'.session = conn.session
             /\ \/ [conn' EXCEPT !.ping_tasks = conn.ping_tasks] = conn
                \/ /\ conn'.pc = "connected"
                   /\ conn'.skipped = conn.skipped
                   /\ conn'.pinged = None
                   /\ conn'.sent = Some([type |-> "Pong", data |-> Unwrap(conn.pinged)])
                \/ conn'.pc = "backoff"]_vars
  /\ [](conn.pc = "connected" => conn.session \in conn.ping_tasks)
  /\ \A s \in 1..MaxSessions : LoopEnded(s) ~> (s \notin conn.ping_tasks)

\* A non-empty Ping has been answered on a second connection while the
\* keep-alive task of the first, ended by an error, had not stopped yet.
C38_Witness ==
  /\ conn.session = 2
  /\ conn.pc = "connected"
  /\ conn.sent = Some([type |-> "Pong", data |-> <<"p">>])
  /\ 1 \in conn.ping_tasks

\* A keep-alive task outlives the connection it was spawned for.
C38_TaskOutlivesLoop == \E s \in conn.ping_tasks : LoopEnded(s)
====
